---- MODULE Spec2Model ----
(***************************************************************************)
(* tasktronaut: compilation of a Process tree into a dependency graph of   *)
(* backend jobs (process.py, SequentialProcess / ConcurrentProcess         *)
(* .enqueue) and the worker-side execution protocol (backend.py,           *)
(* Backend.perform_start / perform_task / perform_complete).               *)
(***************************************************************************)
EXTENDS Integers, Sequences, FiniteSets, TLC

\* ---------------------------------------------------------------- bounds
\* Largest number of nodes (Process nodes and Steps, root included) of a tree.
MaxNodes == 4

\* How many times a backend with a retry policy runs a failed unit again.
MaxRetries == 1

\* Largest number of Steps of a process run under the retrying backend.
MaxRetrySteps == 2

\* Largest number of Builder calls and raises in one build().
MaxOps == 3

\* ------------------------------------------------------------- constants
\* Python's None (Description = Optional[str]).
None == "None"

\* Optional[Job] = None for start_job; job handles are 1, 2, ... so that the
\* truth test of `start_job or ...` is the test against NoJob.
NoJob == 0

\* The classes of process.py the model distinguishes.
SequentialProcess == "SequentialProcess"
ConcurrentProcess == "ConcurrentProcess"
ProcessTypes == {SequentialProcess, ConcurrentProcess}

\* errors.py and the builtin the tests raise (tests/mocks.py task_fail).
NonRetryableProcessError == "NonRetryableProcessError"
CancelProcessError == "CancelProcessError"
NotImplementedError == "NotImplementedError"
ErrorClasses == {NonRetryableProcessError, CancelProcessError, NotImplementedError}

\* What a task function (or a part of the around_task scope) does when called.
Outcomes == {None} \cup ErrorClasses

\* ------------------------------------------------------------ the inputs
\* Definition classes: __module__ and __qualname__ of a ProcessDefinition.
MainDefinition == [module |-> "tests.examples", qualname |-> "Main"]
SubDefinition == [module |-> "tests.examples", qualname |-> "Sub"]
DefinitionClasses == {MainDefinition, SubDefinition}

\* The identifier of a build() call.
Identifier == "p1"

\* Step(func, description, kwargs)
Step(func, description, kwargs) ==
    [type |-> "Step", func |-> func, description |-> description, kwargs |-> kwargs]

\* The Steps the trees are made of.
StepChoices ==
    { Step("foo", None, [foo |-> 1]),
      Step("foo_task", "My Foo Task", [foo |-> 1]) }

\* Process(identifier, definition) with its steps list.
Process(type, identifier, definition, steps) ==
    [type |-> type, identifier |-> identifier, definition |-> definition,
     steps |-> steps]

IsProcess(node) == node.type \in ProcessTypes

RECURSIVE NodesOfSize(_)
RECURSIVE Forests(_)
\* All Steps and Process nodes with exactly n nodes.
NodesOfSize(n) ==
    (IF n = 1 THEN StepChoices ELSE {})
    \cup { Process(t, Identifier, d, f) :
             t \in ProcessTypes, d \in DefinitionClasses, f \in Forests(n - 1) }

\* All lists of children with exactly n nodes in total.
Forests(n) ==
    IF n = 0 THEN { <<>> }
    ELSE UNION { { <<c>> \o f : c \in NodesOfSize(k), f \in Forests(n - k) } :
                 k \in 1..n }

\* The trees a build() can hand to enqueue: a root Process of the definition.
Trees ==
    UNION { { Process(t, Identifier, MainDefinition, f) :
                t \in ProcessTypes, f \in Forests(n) } : n \in 0..(MaxNodes - 1) }

\* ------------------------------------------------------ backend (enqueue)
\* depends_on of an enqueue_perform_* call: None, one Job, or a list of Jobs.
DependsOnNone == [isList |-> FALSE, jobs |-> <<>>]
DependsOnJob(job) == [isList |-> FALSE, jobs |-> <<job>>]
DependsOnList(jobs) == [isList |-> TRUE, jobs |-> jobs]

\* BaseKwargs with the slip that the definition is always the main
\* definition, not that of the node being enqueued.
BaseKwargsOfRoot(p) ==
    [identifier |-> p.identifier,
     module_name |-> MainDefinition.module,
     definition_class |-> MainDefinition.qualname]

\* base_kwargs = to_dict(identifier=..., module_name=..., definition_class=...)
BaseKwargs(p) ==
    [identifier |-> p.identifier,
     module_name |-> p.definition.module,
     definition_class |-> p.definition.qualname]

\* The backend's queue is the list of the units enqueued so far; the Job an
\* enqueue_perform_* call returns is the position of its unit.  path is the
\* position in the tree of the node the unit was enqueued for (bookkeeping of
\* the model, not part of the payload).
EnqueuePerformStart(q, base, depends_on, path) ==
    Append(q, [call |-> "perform_start",
               identifier |-> base.identifier,
               module_name |-> base.module_name,
               definition_class |-> base.definition_class,
               depends_on |-> depends_on, path |-> path])

\* EnqueuePerformTask with the slip that the unit is put on the queue twice.
EnqueuePerformTaskTwice(q, base, function_name, description, kwargs, depends_on, path) ==
    LET unit == [call |-> "perform_task",
                 identifier |-> base.identifier,
                 module_name |-> base.module_name,
                 definition_class |-> base.definition_class,
                 function_name |-> function_name, description |-> description,
                 kwargs |-> kwargs,
                 depends_on |-> depends_on, path |-> path]
    IN  q \o << unit, unit >>

EnqueuePerformTask(q, base, function_name, description, kwargs, depends_on, path) ==
    Append(q, [call |-> "perform_task",
               identifier |-> base.identifier,
               module_name |-> base.module_name,
               definition_class |-> base.definition_class,
               function_name |-> function_name, description |-> description,
               kwargs |-> kwargs,
               depends_on |-> depends_on, path |-> path])

EnqueuePerformComplete(q, base, depends_on, path) ==
    Append(q, [call |-> "perform_complete",
               identifier |-> base.identifier,
               module_name |-> base.module_name,
               definition_class |-> base.definition_class,
               depends_on |-> depends_on, path |-> path])

\* ------------------------------------------------------ Process.enqueue
RECURSIVE Enqueue(_, _, _, _)
RECURSIVE SequentialSteps(_, _, _, _, _, _)
RECURSIVE ConcurrentSteps(_, _, _, _, _, _, _)

RECURSIVE SequentialStepsFanOut(_, _, _, _, _, _)
\* SequentialSteps with the slip that a Step's job does not become the current
\* job: every Step depends on the job the loop was entered with.
SequentialStepsFanOut(p, base, i, q, job, path) ==
    IF i > Len(p.steps) THEN [q |-> q, job |-> job]
    ELSE LET step == p.steps[i] IN
         IF IsProcess(step)
         THEN LET r == Enqueue(step, q, job, Append(path, i))
              IN  SequentialStepsFanOut(p, base, i + 1, r.q, r.job, path)
         ELSE LET q1 == EnqueuePerformTask(q, base, step.func, step.description,
                                           step.kwargs, DependsOnJob(job),
                                           Append(path, i))
              IN  SequentialStepsFanOut(p, base, i + 1, q1,
                                        IF i = Len(p.steps) THEN Len(q1) ELSE job, path)

\* SequentialProcess.enqueue, the loop `for step in self.steps` from child i:
\* the result is the queue and the current `job`.
SequentialSteps(p, base, i, q, job, path) ==
    IF i > Len(p.steps) THEN [q |-> q, job |-> job]
    ELSE LET step == p.steps[i] IN
         IF IsProcess(step)
         THEN LET r == Enqueue(step, q, job, Append(path, i))
              IN  SequentialSteps(p, base, i + 1, r.q, r.job, path)
         ELSE LET q1 == EnqueuePerformTask(q, base, step.func, step.description,
                                           step.kwargs, DependsOnJob(job),
                                           Append(path, i))
              IN  SequentialSteps(p, base, i + 1, q1, Len(q1), path)

\* SequentialStart with the slip that start_job is not read: a start unit is
\* enqueued whether or not a start job was passed in.
SequentialStartAlways(q, base, start_job, path) ==
    EnqueuePerformStart(q, base, DependsOnNone, path)

\* job = start_job or backend.enqueue_perform_start(**base_kwargs)
SequentialStart(q, base, start_job, path) ==
    IF start_job # NoJob THEN q
    ELSE EnqueuePerformStart(q, base, DependsOnNone, path)

\* SequentialProcess.enqueue
SequentialEnqueue(p, q, start_job, path) ==
    LET base == BaseKwargs(p)
        q0 == SequentialStart(q, base, start_job, path)
        job == IF start_job # NoJob THEN start_job ELSE Len(q0)
        r == SequentialSteps(p, base, 1, q0, job, path)
        q1 == EnqueuePerformComplete(r.q, base, DependsOnJob(r.job), path)
    IN  [q |-> q1, job |-> Len(q1)]

RECURSIVE ConcurrentStepsChained(_, _, _, _, _, _, _)
\* ConcurrentSteps with the slip that a Step depends on the job of the sibling
\* before it (on the start job when it is the first).
ConcurrentStepsChained(p, base, i, q, job, jobs, path) ==
    IF i > Len(p.steps) THEN [q |-> q, jobs |-> jobs]
    ELSE LET step == p.steps[i]
             prev == IF jobs = <<>> THEN job ELSE jobs[Len(jobs)]
         IN
         IF IsProcess(step)
         THEN LET r == Enqueue(step, q, job, Append(path, i))
              IN  ConcurrentStepsChained(p, base, i + 1, r.q, job, Append(jobs, r.job), path)
         ELSE LET q1 == EnqueuePerformTask(q, base, step.func, step.description,
                                           step.kwargs, DependsOnJob(prev),
                                           Append(path, i))
              IN  ConcurrentStepsChained(p, base, i + 1, q1, job, Append(jobs, Len(q1)), path)

\* ConcurrentProcess.enqueue, the loop `for step in self.steps` from child i:
\* the result is the queue and the list `jobs`.
ConcurrentSteps(p, base, i, q, job, jobs, path) ==
    IF i > Len(p.steps) THEN [q |-> q, jobs |-> jobs]
    ELSE LET step == p.steps[i] IN
         IF IsProcess(step)
         THEN LET r == Enqueue(step, q, job, Append(path, i))
              IN  ConcurrentSteps(p, base, i + 1, r.q, job, Append(jobs, r.job), path)
         ELSE LET q1 == EnqueuePerformTask(q, base, step.func, step.description,
                                           step.kwargs, DependsOnJob(job),
                                           Append(path, i))
              IN  ConcurrentSteps(p, base, i + 1, q1, job, Append(jobs, Len(q1)), path)

\* ConcurrentStart written as SequentialProcess.enqueue has it: no start unit
\* is enqueued when a start job is passed in.
ConcurrentStartHonouring(q, base, start_job, path) ==
    IF start_job # NoJob THEN q
    ELSE EnqueuePerformStart(q, base, DependsOnNone, path)

\* job = backend.enqueue_perform_start(**base_kwargs): start_job is not read.
ConcurrentStart(q, base, start_job, path) ==
    EnqueuePerformStart(q, base, DependsOnNone, path)

\* ConcurrentProcess.enqueue
ConcurrentEnqueue(p, q, start_job, path) ==
    LET base == BaseKwargs(p)
        q0 == ConcurrentStart(q, base, start_job, path)
        job == Len(q0)
        r == ConcurrentSteps(p, base, 1, q0, job, <<>>, path)
        q1 == EnqueuePerformComplete(r.q, base, DependsOnList(r.jobs), path)
    IN  [q |-> q1, job |-> Len(q1)]

\* step.enqueue(backend=backend, start_job=job): dispatch on the node's class.
Enqueue(p, q, start_job, path) ==
    IF p.type = SequentialProcess
    THEN SequentialEnqueue(p, q, start_job, path)
    ELSE ConcurrentEnqueue(p, q, start_job, path)

\* --------------------------------------------- the job graph of the queue
Jobs(q) == 1..Len(q)

\* The jobs a unit names in depends_on.
DependsOn(q, j) == { q[j].depends_on.jobs[i] : i \in 1..Len(q[j].depends_on.jobs) }

RECURSIVE Ancestors(_, _)
\* Every job j transitively depends on.  A unit only names jobs enqueued
\* before it, so the recursion ends.
Ancestors(q, j) ==
    DependsOn(q, j) \cup UNION { Ancestors(q, d) : d \in DependsOn(q, j) }

\* Every job that transitively depends on j (the downstream of j).
Dependents(q, j) == { k \in Jobs(q) : j \in Ancestors(q, k) }

\* ----------------------------------------------- ProcessDefinition hooks
\* One thing a perform_* call does: a hook of the definition, the task
\* function, an operation on the Job handle, or how the call ends.
Event(ev, job, identifier, step, error) ==
    [ev |-> ev, job |-> job, identifier |-> identifier, step |-> step,
     error |-> error]

\* ProcessDefinition.around_task is a generator context manager: log, yield,
\* log.  A scope says what the part before the yield and the part after it
\* raise; the default hook only logs.
DefaultScope == [before |-> None, after |-> None]

\* WithAroundTask with the slip that an error of the part after the yield is
\* dropped: the statement ends as the task function ended.
WithAroundTaskAfterDropped(u, scope, outcome) ==
    LET enter == Event("around_task.before", NoJob, u.identifier, u.function_name, scope.before)
        call == Event("task_func", NoJob, u.identifier, u.function_name, outcome)
        exit == Event("around_task.after", NoJob, u.identifier, u.function_name, scope.after)
    IN  IF scope.before # None THEN [log |-> <<enter>>, raised |-> scope.before]
        ELSE IF outcome # None THEN [log |-> <<enter, call>>, raised |-> outcome]
        ELSE [log |-> <<enter, call, exit>>, raised |-> None]

\* WithAroundTask with the scope written as try/finally: the part after the
\* yield also runs when the task function raised.
WithAroundTaskFinally(u, scope, outcome) ==
    LET enter == Event("around_task.before", NoJob, u.identifier, u.function_name, scope.before)
        call == Event("task_func", NoJob, u.identifier, u.function_name, outcome)
        exit == Event("around_task.after", NoJob, u.identifier, u.function_name, scope.after)
    IN  IF scope.before # None THEN [log |-> <<enter>>, raised |-> scope.before]
        ELSE IF outcome # None THEN [log |-> <<enter, call, exit>>, raised |-> outcome]
        ELSE [log |-> <<enter, call, exit>>, raised |-> scope.after]

\* The `with definition.around_task(...): task_func(context=context, **kwargs)`
\* statement: the events in order and the error that leaves the statement.
\* An error raised by the task function is thrown into the generator at its
\* yield, which does not catch it: the part after the yield does not run.
WithAroundTask(u, scope, outcome) ==
    LET enter == Event("around_task.before", NoJob, u.identifier, u.function_name, scope.before)
        call == Event("task_func", NoJob, u.identifier, u.function_name, outcome)
        exit == Event("around_task.after", NoJob, u.identifier, u.function_name, scope.after)
    IN  IF scope.before # None THEN [log |-> <<enter>>, raised |-> scope.before]
        ELSE IF outcome # None THEN [log |-> <<enter, call>>, raised |-> outcome]
        ELSE [log |-> <<enter, call, exit>>, raised |-> scope.after]

\* ExceptNonRetryableProcessError that also prunes, as the cancel clause does.
ExceptNonRetryableProcessErrorPruning(job, u, e) ==
    [log |-> << Event("job.cancel", job, None, None, None),
                Event("job.delete_dependents", job, None, None, None),
                Event("on_failed", NoJob, u.identifier, u.function_name, e) >>,
     raised |-> e]

\* except NonRetryableProcessError as e: on_failed, raise
ExceptNonRetryableProcessError(job, u, e) ==
    [log |-> << Event("on_failed", NoJob, u.identifier, u.function_name, e) >>,
     raised |-> e]

\* ExceptCancelProcessError with the hook called before the job is touched.
ExceptCancelProcessErrorHookFirst(job, u, e) ==
    [log |-> << Event("on_cancelled", NoJob, u.identifier, None, None),
                Event("job.cancel", job, None, None, None),
                Event("job.delete_dependents", job, None, None, None) >>,
     raised |-> None]

\* ExceptCancelProcessError that ends with `raise`, as the other clauses do.
ExceptCancelProcessErrorReraising(job, u, e) ==
    [log |-> << Event("job.cancel", job, None, None, None),
                Event("job.delete_dependents", job, None, None, None),
                Event("on_cancelled", NoJob, u.identifier, None, None) >>,
     raised |-> e]

\* except CancelProcessError: job.cancel(), job.delete_dependents(),
\* on_cancelled, and the error is ignored
ExceptCancelProcessError(job, u, e) ==
    [log |-> << Event("job.cancel", job, None, None, None),
                Event("job.delete_dependents", job, None, None, None),
                Event("on_cancelled", NoJob, u.identifier, None, None) >>,
     raised |-> None]

\* ExceptException without the final `raise`: the error is swallowed.
ExceptExceptionSwallowing(job, u, e) ==
    [log |-> << Event("on_failed", NoJob, u.identifier, u.function_name, e) >>,
     raised |-> None]

\* except Exception as e: on_failed, raise
ExceptException(job, u, e) ==
    [log |-> << Event("on_failed", NoJob, u.identifier, u.function_name, e) >>,
     raised |-> e]

\* Except with the slip that the clauses are not exclusive: an error that is
\* a NonRetryableProcessError is also handled as an Exception.
ExceptBothClauses(job, u, e) ==
    IF e = NonRetryableProcessError
    THEN [log |-> ExceptNonRetryableProcessError(job, u, e).log
                    \o ExceptException(job, u, e).log,
          raised |-> e]
    ELSE IF e = CancelProcessError THEN ExceptCancelProcessError(job, u, e)
    ELSE ExceptException(job, u, e)

\* The except clauses of perform_task, tried in the order they are written.
Except(job, u, e) ==
    IF e = NonRetryableProcessError THEN ExceptNonRetryableProcessError(job, u, e)
    ELSE IF e = CancelProcessError THEN ExceptCancelProcessError(job, u, e)
    ELSE ExceptException(job, u, e)

\* PerformTask with the slip that the body is run a second time when it
\* raised an error that is neither the non-retryable nor the cancel error.
PerformTaskRetrying(job, u, scope, outcome) ==
    LET load == << Event("load_definition", NoJob, None, u.definition_class, None),
                   Event("getattr", NoJob, None, u.function_name, None),
                   Event("Context", NoJob, None, None, None) >>
        body == WithAroundTask(u, scope, outcome)
        again == IF body.raised \in {None, NonRetryableProcessError, CancelProcessError}
                 THEN <<>> ELSE body.log
        handled == IF body.raised = None THEN [log |-> <<>>, raised |-> None]
                   ELSE Except(job, u, body.raised)
    IN  [log |-> load \o body.log \o again \o handled.log, raised |-> handled.raised]

\* Backend.perform_task(job, identifier, module_name, definition_class,
\* function_name, description, kwargs) for the unit u: what it does, in
\* order, and the error it raises (None when it returns).
PerformTask(job, u, scope, outcome) ==
    LET load == << Event("load_definition", NoJob, None, u.definition_class, None),
                   Event("getattr", NoJob, None, u.function_name, None),
                   Event("Context", NoJob, None, None, None) >>
        body == WithAroundTask(u, scope, outcome)
        handled == IF body.raised = None THEN [log |-> <<>>, raised |-> None]
                   ELSE Except(job, u, body.raised)
    IN  [log |-> load \o body.log \o handled.log, raised |-> handled.raised]

\* Backend.perform_start: load_definition, on_started(identifier)
PerformStart(u) ==
    [log |-> << Event("load_definition", NoJob, None, u.definition_class, None),
                Event("on_started", NoJob, u.identifier, None, None) >>,
     raised |-> None]

\* Backend.perform_complete: load_definition, on_completed(identifier)
PerformComplete(u) ==
    [log |-> << Event("load_definition", NoJob, None, u.definition_class, None),
                Event("on_completed", NoJob, u.identifier, None, None) >>,
     raised |-> None]

\* How a perform_* call ended: the last entry of a job's log.
Ended(r) ==
    IF r.raised = None THEN Event("return", NoJob, None, None, None)
    ELSE Event("raise", NoJob, None, None, r.raised)

\* ------------------------------------------------------ the Job protocol
\* Job.cancel(): the job is not executed (again).
JobCancel(st, q, job) == [st EXCEPT ![job] = "canceled"]

\* Job.delete_dependents(): removes every job downstream of the job.
JobDeleteDependents(st, q, job) ==
    [k \in DOMAIN st |-> IF k \in Dependents(q, job) THEN "deleted" ELSE st[k]]

RECURSIVE ApplyJobCalls(_, _, _, _)
\* The effect on the jobs' states of the Job operations of a log, from entry i.
ApplyJobCalls(st, q, events, i) ==
    IF i > Len(events) THEN st
    ELSE LET e == events[i]
             st1 == IF e.ev = "job.cancel" THEN JobCancel(st, q, e.job)
                    ELSE IF e.ev = "job.delete_dependents"
                         THEN JobDeleteDependents(st, q, e.job)
                         ELSE st
         IN  ApplyJobCalls(st1, q, events, i + 1)

\* The worker's bookkeeping when the perform_* call of job j ends: failed when
\* it raised, finished when it returned (a job cancelled meanwhile stays so).
WorkerDone(st, j, raised) ==
    IF raised # None THEN [st EXCEPT ![j] = "failed"]
    ELSE IF st[j] = "canceled" THEN st
    ELSE [st EXCEPT ![j] = "finished"]

\* ------------------------------------------------------------ the state
VARIABLES
    process,    \* the Process tree build() returned
    pc,         \* "building": inside build(); "failed": build() raised;
                \* "built": not yet enqueued; "enqueued": handed to the backend
    queue,      \* the backend's units, in the order they were enqueued
    rootJob,    \* the Job process.enqueue(backend) returned
    status,     \* per job: "queued", "finished", "failed", "canceled", "deleted"
    log,        \* per job: what its perform_* call did, in order
    nodes,      \* build(): the Process objects created so far (1 is the root)
    scopes,     \* build(): the open scopes of define_process, innermost last
    calls,      \* build(): the Builder calls made so far, in order
    raised      \* build(): the error that is propagating, or None

vars == <<process, pc, queue, rootJob, status, log, nodes, scopes, calls, raised>>

\* The state of the build() call, which process.enqueue and the workers do
\* not touch.
buildVars == <<nodes, scopes, calls, raised>>

\* The state of the backend, which build() does not touch.
backendVars == <<queue, rootJob, status, log>>

Init ==
    /\ process \in Trees
    /\ nodes = <<>>
    /\ scopes = <<>>
    /\ calls = <<>>
    /\ raised = None
    /\ pc = "built"
    /\ queue = <<>>
    /\ rootJob = NoJob
    /\ status = <<>>
    /\ log = <<>>

\* EnqueuedTree with the slip that the loop takes the children off the list
\* (`while self.steps: step = self.steps.pop(0)`).
EnqueuedTreeDrained(p) == [p EXCEPT !.steps = <<>>]

\* The tree as process.enqueue leaves it: enqueue iterates self.steps and
\* reads the fields of the nodes and of the Steps (the payloads are new dicts,
\* made by to_dict and base_kwargs.copy()); it assigns to none of them.
EnqueuedTree(p) == p

\* process.enqueue(backend)
EnqueueProcess ==
    /\ pc = "built"
    /\ LET r == Enqueue(process, <<>>, NoJob, <<>>) IN
        /\ queue' = r.q
        /\ rootJob' = r.job
        /\ status' = [j \in Jobs(r.q) |-> "queued"]
        /\ log' = [j \in Jobs(r.q) |-> <<>>]
    /\ process' = EnqueuedTree(process)
    /\ pc' = "enqueued"
    /\ UNCHANGED buildVars

\* The backend runs a unit only after every job it depends on has completed.
Runnable(j) ==
    /\ pc = "enqueued"
    /\ status[j] = "queued"
    /\ \A d \in DependsOn(queue, j) : status[d] = "finished"

\* A worker runs one unit to its end.
Work(j, r) ==
    /\ log' = [log EXCEPT ![j] = @ \o r.log \o << Ended(r) >>]
    /\ status' = WorkerDone(ApplyJobCalls(status, queue, r.log, 1), j, r.raised)
    /\ UNCHANGED <<process, pc, queue, rootJob, buildVars>>

RunStart(j) ==
    /\ Runnable(j)
    /\ queue[j].call = "perform_start"
    /\ Work(j, PerformStart(queue[j]))

RunTask(j) ==
    /\ Runnable(j)
    /\ queue[j].call = "perform_task"
    /\ \E outcome \in Outcomes :
          Work(j, PerformTask(j, queue[j], DefaultScope, outcome))

RunComplete(j) ==
    /\ Runnable(j)
    /\ queue[j].call = "perform_complete"
    /\ Work(j, PerformComplete(queue[j]))

Next ==
    \/ EnqueueProcess
    \/ \E j \in DOMAIN queue : RunStart(j)
    \/ \E j \in DOMAIN queue : RunTask(j)
    \/ \E j \in DOMAIN queue : RunComplete(j)

RECURSIVE BlocksOnly(_)
\* The tree of a definition that opens sequential() and concurrent() blocks
\* and calls no sub_process: _build_process gives every node the definition
\* of the node it was opened in.
BlocksOnly(p) ==
    \A i \in 1..Len(p.steps) :
        IsProcess(p.steps[i]) =>
            p.steps[i].definition = p.definition /\ BlocksOnly(p.steps[i])

InitBlocks == Init /\ BlocksOnly(process)

Spec == InitBlocks /\ [][Next]_vars

\* ------------------------------------- the same tree enqueued a second time
\* process.enqueue(backend) once more, on the backend that holds the units of
\* the first call.
EnqueueAgain ==
    /\ pc = "enqueued"
    /\ LET r == Enqueue(process, queue, NoJob, <<>>) IN
        /\ queue' = r.q
        /\ rootJob' = r.job
        /\ status' = [j \in Jobs(r.q) |-> "queued"]
        /\ log' = [j \in Jobs(r.q) |-> <<>>]
    /\ process' = EnqueuedTree(process)
    /\ pc' = "enqueued again"
    /\ UNCHANGED buildVars

NextEnqueue ==
    \/ EnqueueProcess
    \/ EnqueueAgain

SpecEnqueue == Init /\ [][NextEnqueue]_vars

\* ------------------------------------------- a backend that retries
\* How many times the perform_task call of job j was made.
Executions(j) == Cardinality({ i \in 1..Len(log[j]) : log[j][i].ev = "load_definition" })

\* The processes whose children are all Steps.
OnlySteps(p) == \A i \in 1..Len(p.steps) : ~IsProcess(p.steps[i])

\* A backend configured with a retry policy for failed units.  All the
\* backend sees of a failure is that perform_task raised: the RQ entry point
\* passes every argument on and lets every error through, so a unit whose
\* call raised is failed whatever the error was, and the policy queues it
\* again while it has retries left.
Retry(j) ==
    /\ pc = "enqueued"
    /\ status[j] = "failed"
    /\ Executions(j) <= MaxRetries
    /\ status' = [status EXCEPT ![j] = "queued"]
    /\ UNCHANGED <<process, pc, queue, rootJob, log, buildVars>>

InitRetry == Init /\ OnlySteps(process) /\ Len(process.steps) <= MaxRetrySteps

NextRetry ==
    \/ EnqueueProcess
    \/ \E j \in DOMAIN queue : RunStart(j)
    \/ \E j \in DOMAIN queue : RunTask(j)
    \/ \E j \in DOMAIN queue : RunComplete(j)
    \/ \E j \in DOMAIN queue : Retry(j)

SpecRetry == InitRetry /\ [][NextRetry]_vars

\* =================================================================
\* ProcessDefinition.build and the Builder
\* =================================================================
\* kwargs values: Python ints and strs.
PyInt(n) == [py |-> "int", int |-> n, str |-> ""]
PyStr(s) == [py |-> "str", int |-> 0, str |-> s]

\* f"{v}"
Format(v) == IF v.py = "int" THEN ToString(v.int) ELSE v.str

\* v * 2
Times2(v) == IF v.py = "int" THEN PyInt(v.int * 2) ELSE PyStr(v.str \o v.str)

\* `a or b` on Optional[str]: None and the empty string are false.
DescOr(a, b) == IF a \in {None, ""} THEN b ELSE a

\* A definition class with execution_mode = ExecutionMode.CONCURRENT.
ConcurrentDefinition == [module |-> "tests.examples", qualname |-> "Conc"]

\* cls.execution_mode.value: the Process class of a definition (SEQUENTIAL
\* unless the class overrides it).
ExecutionMode(definition) ==
    IF definition = ConcurrentDefinition THEN ConcurrentProcess ELSE SequentialProcess

\* The build() calls: cls.build(identifier=..., options=..., **kwargs).
BuildKwargs == [foo |-> PyInt(4), count |-> PyInt(2), baz |-> PyStr("bar")]
\* options: a dict, by its items.
BuildOptions == [type |-> "dict", items |-> {<<"debug", TRUE>>}]
BuildCalls ==
    { [definition |-> MainDefinition, identifier |-> None],
      [definition |-> ConcurrentDefinition, identifier |-> Identifier] }

\* uuid.uuid4().hex
Uuid4Hex == "uuid4"

\* The definitions handed to sub_process.
SubProcessDefinitions == {SubDefinition, ConcurrentDefinition}

\* The task methods: an undecorated method has no `description` attribute,
\* @task(description=...) attaches the text and a bare @task attaches None.
TaskMethods ==
    { [name |-> "foo", has_description |-> FALSE, description |-> None],
      [name |-> "foo_task", has_description |-> TRUE, description |-> "My Foo Task"],
      [name |-> "baz_task", has_description |-> TRUE, description |-> None] }

\* The `description` arguments of builder.task and of sequential() and
\* concurrent().
TaskDescriptions == {None, "explicit"}
BlockDescriptions == {None, "block"}

\* The two task methods the builds that open scopes register.
ScopeTaskMethods == { m \in TaskMethods : m.name \in {"foo", "foo_task"} }

\* The errors user code raises inside define_process.
TypeError == "TypeError"
ValueError == "ValueError"
RuntimeError == "RuntimeError"

\* types.SimpleNamespace(**items)
SimpleNamespace(items) == [type |-> "SimpleNamespace", items |-> items]

\* ConvertOptions with the slip that only a dict is taken over.
ConvertOptionsDictOnly(options) ==
    IF options.type = "dict" /\ options.items # {}
    THEN SimpleNamespace(options.items)
    ELSE SimpleNamespace({})

\* Builder._convert_options: None and the empty dict are false, a
\* SimpleNamespace is true and is returned as it is.
ConvertOptions(options) ==
    IF options.type = "NoneType" THEN SimpleNamespace({})
    ELSE IF options.type = "SimpleNamespace" THEN options
    ELSE IF options.items # {} THEN SimpleNamespace(options.items)
    ELSE SimpleNamespace({})

\* Builder(process, kwargs, options, description); process is the position of
\* the Process object in `nodes` (Builders made by each and transform hold
\* the same object as the Builder that made them).
Builder(process_, kwargs, options, description) ==
    [process |-> process_, kwargs |-> kwargs, options |-> ConvertOptions(options),
     description |-> description]

\* A child of a Process object that is itself a Process object.
Ref(n) == [type |-> "ref", node |-> n]

\* StepsAppend with the slip that the child is put first.
StepsPrepend(ns, self, child) ==
    [ns EXCEPT ![self.process].steps = << child >> \o @]

\* self.process.steps.append(child)
StepsAppend(ns, self, child) ==
    [ns EXCEPT ![self.process].steps = Append(@, child)]

\* GetAttrDescription written as `getattr(func, "description", None) or
\* default`: an attached None gives way to the default.
GetAttrDescriptionOrDefault(func, default) ==
    IF func.has_description /\ func.description # None THEN func.description ELSE default

\* getattr(func, "description", default)
GetAttrDescription(func, default) ==
    IF func.has_description THEN func.description ELSE default

\* TaskDescription as the order of precedence reads when an attached None
\* counts as no description: explicit, else attached, else the Builder's.
TaskDescriptionFallingThrough(self, func, description) ==
    DescOr(description,
           DescOr(GetAttrDescription(func, None), self.description))

\* description or getattr(func, "description", self.description)
TaskDescription(self, func, description) ==
    DescOr(description, GetAttrDescription(func, self.description))

\* Builder.task: the Step it appends.
TaskStep(self, func, description) ==
    Step(func.name, TaskDescription(self, func, description), self.kwargs)

\* NestedIdentifier with the slip that a nested Process object is given an
\* identifier of its own.
NestedIdentifierFresh(ns, self) == Uuid4Hex \o "-" \o ToString(Len(ns) + 1)

\* identifier=self.process.identifier
NestedIdentifier(ns, self) == ns[self.process].identifier

\* Builder._build_process up to its yield: the new Process object and the
\* Builder on it.
BuildProcessNode(ns, self, process_type) ==
    Process(process_type, NestedIdentifier(ns, self), ns[self.process].definition, <<>>)

BuildProcessBuilder(ns, self, description) ==
    Builder(Len(ns) + 1, self.kwargs, self.options,
            DescOr(description, self.description))

\* SubProcessNode with the slip that the variant is that of the Process
\* object of the Builder the call is made on.
SubProcessNodeOfParent(ns, self, definition) ==
    Process(ns[self.process].type, NestedIdentifier(ns, self), definition, <<>>)

\* Builder.sub_process up to definition().define_process(builder).
SubProcessNode(ns, self, definition) ==
    Process(ExecutionMode(definition), NestedIdentifier(ns, self), definition, <<>>)

\* A yielded item / a returned value: a bag, or a (bag, description) pair.
Dict(bag) == [isTuple |-> FALSE, kwargs |-> bag, desc |-> None]
Pair(bag, desc) == [isTuple |-> TRUE, kwargs |-> bag, desc |-> desc]

\* kwargs, desc = kwargs if isinstance(kwargs, tuple) else (kwargs, None)
Unpack(value) ==
    IF value.isTuple THEN [kwargs |-> value.kwargs, desc |-> value.desc]
    ELSE [kwargs |-> value.kwargs, desc |-> None]

\* The generator methods given to each (examples.py Each.item,
\* EachWithDescription.item): what func(**kwargs) yields, in order.
EachMethods == {"item", "item_with_description"}
EachItems(func, kwargs) ==
    [c \in 1..kwargs.count.int |->
        IF func = "item" THEN Dict([bar |-> PyInt(c - 1)])
        ELSE Pair([bar |-> PyInt(c - 1)], "Item " \o ToString(c - 1))]

\* The transform methods (examples.py Transform.transform_args,
\* TransformWithDescription.transform_args): what func(**kwargs) returns.
TransformMethods == {"transform_args", "transform_args_with_description"}
TransformResult(func, kwargs) ==
    IF func = "transform_args" THEN Dict([bar |-> Times2(kwargs.foo)])
    ELSE Pair([bar |-> Times2(kwargs.foo)], "Item " \o Format(kwargs.foo))

\* The bag a merge of the yielded bag into the enclosing kwargs would give.
Merge(kwargs, bag) ==
    [k \in DOMAIN kwargs \cup DOMAIN bag |->
        IF k \in DOMAIN bag THEN bag[k] ELSE kwargs[k]]

\* EachBuilder with the slip that the yielded bag is merged into the
\* enclosing kwargs.
EachBuilderMerging(self, description, value) ==
    Builder(self.process, Merge(self.kwargs, Unpack(value).kwargs), self.options,
            DescOr(Unpack(value).desc, DescOr(description, self.description)))

\* KwargsAfterCall with the slip that the function is handed self.kwargs
\* itself and the bag it makes is that dict with the new keys put in (as
\* `kwargs.update(b=...)`; `yield kwargs` does).
KwargsAfterCallShared(kwargs, bags) ==
    IF bags = <<>> THEN kwargs ELSE Merge(kwargs, bags[1])

\* func(**self.kwargs.copy()): self.kwargs after the call that produced
\* `bags`.  The function is given the entries of a copy, so nothing it does
\* to its arguments reaches the dict of the Builder.
KwargsAfterCall(kwargs, bags) == kwargs

\* Builder.each: the Builder yielded for one item of the generator.
EachBuilder(self, description, value) ==
    Builder(self.process, Unpack(value).kwargs, self.options,
            DescOr(Unpack(value).desc, DescOr(description, self.description)))

\* TransformBuilder with the slip that the Builder is made on the root
\* Process object, not on the one of the Builder that was called.
TransformBuilderOnRoot(self, description, value) ==
    Builder(1, Unpack(value).kwargs, self.options,
            DescOr(Unpack(value).desc, DescOr(description, self.description)))

\* TransformBuilder with the slip that the returned description is dropped.
TransformBuilderNoDescription(self, description, value) ==
    Builder(self.process, Unpack(value).kwargs, self.options,
            DescOr(description, self.description))

\* Builder.transform: the Builder yielded for the returned value.
TransformBuilder(self, description, value) ==
    Builder(self.process, Unpack(value).kwargs, self.options,
            DescOr(Unpack(value).desc, DescOr(description, self.description)))

\* TypeAdapter(expected_type).validate_python(value) passes.
Conforms(expected_type, value) == value.py = expected_type

\* The expectations given to expected_arguments, as (name, type) in the
\* order of the keyword arguments; the type None declares no type.
Expect(name, expected_type) == [name |-> name, type |-> expected_type]
ExpectationChoices ==
    { << Expect("foo", "int"), Expect("baz", None) >>,
      << Expect("foo", "str") >>,
      << Expect("baz", None), Expect("quux", None) >>,
      << Expect("foo", "str"), Expect("quux", "int") >>,
      << Expect("quux", "int"), Expect("foo", "str") >> }

RECURSIVE ExpectedArgumentsLenient(_, _, _)
\* ExpectedArguments with the slip that an absent name is skipped.
ExpectedArgumentsLenient(kwargs, expectations, i) ==
    IF i > Len(expectations) THEN None
    ELSE LET e == expectations[i] IN
         IF e.name \notin DOMAIN kwargs
         THEN ExpectedArgumentsLenient(kwargs, expectations, i + 1)
         ELSE IF e.type # None /\ ~Conforms(e.type, kwargs[e.name]) THEN ValueError
         ELSE ExpectedArgumentsLenient(kwargs, expectations, i + 1)

RECURSIVE ExpectedArguments(_, _, _)
\* Builder.expected_arguments, the loop over the expectations from the i-th:
\* the error it raises, or None when it returns.
ExpectedArguments(kwargs, expectations, i) ==
    IF i > Len(expectations) THEN None
    ELSE LET e == expectations[i] IN
         IF e.name \notin DOMAIN kwargs THEN TypeError
         ELSE IF e.type # None /\ ~Conforms(e.type, kwargs[e.name]) THEN ValueError
         ELSE ExpectedArguments(kwargs, expectations, i + 1)

RECURSIVE TreeOf(_, _)
\* The tree under the Process object n: builder.process, as enqueue walks it.
TreeOf(ns, n) ==
    Process(ns[n].type, ns[n].identifier, ns[n].definition,
            [i \in 1..Len(ns[n].steps) |->
                IF ns[n].steps[i].type = "ref" THEN TreeOf(ns, ns[n].steps[i].node)
                ELSE ns[n].steps[i]])

\* An open scope of define_process: the Builder call that opened it (kind),
\* the Builder it was called on (self), its description argument, the
\* Builder it yielded, and for each the values the generator has yet to yield.
Scope(kind, self, description, builder, items) ==
    [kind |-> kind, self |-> self, description |-> description,
     builder |-> builder, items |-> items]

Top == scopes[Len(scopes)]
Pop(sc) == SubSeq(sc, 1, Len(sc) - 1)

\* The Builders a statement of define_process can name: those of the scopes
\* opened in the define_process call that is running.
Visible ==
    LET frames == { i \in 1..Len(scopes) : scopes[i].kind \in {"define_process", "sub_process"} }
    IN  { i \in 1..Len(scopes) : \A k \in frames : k <= i }

\* The Builder calls and raises made so far (what follows from them, the
\* exits of scopes, the yields of each and the catches, is not counted).
NumOps == Cardinality({ i \in 1..Len(calls) : calls[i].op \notin {"exit", "yield", "catch"} })

Building == pc = "building" /\ raised = None /\ scopes # <<>>

\* ProcessDefinition.build up to the call of define_process.
InitBuild ==
    /\ \E call \in BuildCalls :
          LET builder == Builder(1, BuildKwargs, BuildOptions, None) IN
          /\ nodes = << Process(ExecutionMode(call.definition),
                                IF call.identifier # None THEN call.identifier ELSE Uuid4Hex,
                                call.definition, <<>>) >>
          /\ scopes = << Scope("define_process", builder, None, builder, <<>>) >>
    /\ calls = <<>>
    /\ raised = None
    /\ pc = "building"
    /\ process = None
    /\ queue = <<>>
    /\ rootJob = NoJob
    /\ status = <<>>
    /\ log = <<>>

\* builder.task(func, description)
BuilderTask(i, func, description) ==
    /\ Building /\ NumOps < MaxOps
    /\ LET self == scopes[i].builder
           step == TaskStep(self, func, description)
       IN  /\ nodes' = StepsAppend(nodes, self, step)
           /\ calls' = Append(calls, [op |-> "task", scope |-> i, self |-> self,
                                      func |-> func, description |-> description,
                                      step |-> step])
    /\ UNCHANGED <<scopes, raised, pc, process, backendVars>>

\* with builder.sequential(description) / builder.concurrent(description):
\* _build_process up to its yield.
BuildProcessEnter(process_type, description) ==
    /\ Building /\ NumOps < MaxOps
    /\ LET self == Top.builder
           builder == BuildProcessBuilder(nodes, self, description)
       IN  /\ nodes' = Append(nodes, BuildProcessNode(nodes, self, process_type))
           /\ scopes' = Append(scopes, Scope("block", self, description, builder, <<>>))
           /\ calls' = Append(calls, [op |-> IF process_type = SequentialProcess
                                             THEN "sequential" ELSE "concurrent",
                                      self |-> self, description |-> description,
                                      builder |-> builder])
    /\ UNCHANGED <<raised, pc, process, backendVars>>

\* The exit entry of `calls` of the innermost open scope.
Exit(scope, how) ==
    [op |-> "exit", scope |-> Len(scopes), kind |-> scope.kind, self |-> scope.self,
     builder |-> scope.builder, how |-> how]

\* _build_process after its yield: self.process.steps.append(builder.process)
BuildProcessRelease(ns, scope) == StepsAppend(ns, scope.self, Ref(scope.builder.process))

\* The end of the body of a sequential() / concurrent() scope.
BuildProcessExit ==
    /\ Building
    /\ Top.kind = "block"
    /\ nodes' = BuildProcessRelease(nodes, Top)
    /\ scopes' = Pop(scopes)
    /\ calls' = Append(calls, Exit(Top, "return"))
    /\ UNCHANGED <<raised, pc, process, backendVars>>

\* builder.sub_process(definition, description) up to the call of the
\* definition's define_process, which gets the new Builder only.
SubProcessEnter(definition, description) ==
    /\ Building /\ NumOps < MaxOps
    /\ LET self == Top.builder
           builder == BuildProcessBuilder(nodes, self, description)
       IN  /\ nodes' = Append(nodes, SubProcessNode(nodes, self, definition))
           /\ scopes' = Append(scopes, Scope("sub_process", self, description, builder, <<>>))
           /\ calls' = Append(calls, [op |-> "sub_process", self |-> self,
                                      definition |-> definition,
                                      description |-> description, builder |-> builder])
    /\ UNCHANGED <<raised, pc, process, backendVars>>

\* The definition's define_process returned:
\* self.process.steps.append(builder.process)
SubProcessExit ==
    /\ Building
    /\ Top.kind = "sub_process"
    /\ nodes' = StepsAppend(nodes, Top.self, Ref(Top.builder.process))
    /\ scopes' = Pop(scopes)
    /\ calls' = Append(calls, Exit(Top, "return"))
    /\ UNCHANGED <<raised, pc, process, backendVars>>

\* for b in builder.each(func, description): the generator is called with a
\* copy of the kwargs and the loop takes its first item, if there is one.
EachEnter(func, description) ==
    /\ Building /\ NumOps < MaxOps
    /\ "count" \in DOMAIN Top.builder.kwargs
    /\ LET self == Top.builder
           items == EachItems(func, self.kwargs)
           call == [op |-> "each", scope |-> Len(scopes), self |-> self, func |-> func,
                    description |-> description, kwargs |-> self.kwargs,
                    items |-> items]
           caller == [scopes EXCEPT ![Len(scopes)].builder.kwargs =
                         KwargsAfterCall(@, [i \in 1..Len(items) |-> Unpack(items[i]).kwargs])]
       IN  IF items = <<>>
           THEN /\ calls' = Append(calls, call)
                /\ scopes' = caller
           ELSE LET builder == EachBuilder(self, description, Head(items)) IN
                /\ scopes' = Append(caller, Scope("each", self, description, builder, Tail(items)))
                /\ calls' = calls \o << call, [op |-> "yield", scope |-> Len(scopes) + 1,
                                                builder |-> builder] >>
    /\ UNCHANGED <<nodes, raised, pc, process, backendVars>>

\* The end of the body of the for loop: the next item, or the end of the loop.
EachNext ==
    /\ Building
    /\ Top.kind = "each"
    /\ IF Top.items = <<>>
       THEN /\ scopes' = Pop(scopes)
            /\ calls' = Append(calls, Exit(Top, "return"))
       ELSE LET builder == EachBuilder(Top.self, Top.description, Head(Top.items)) IN
            /\ scopes' = [scopes EXCEPT ![Len(scopes)] =
                             Scope("each", Top.self, Top.description, builder, Tail(Top.items))]
            /\ calls' = Append(calls, [op |-> "yield", scope |-> Len(scopes),
                                       builder |-> builder])
    /\ UNCHANGED <<nodes, raised, pc, process, backendVars>>

\* with builder.transform(func, description): func is called with a copy of
\* the kwargs and the Builder on its result is yielded.
TransformEnter(func, description) ==
    /\ Building /\ NumOps < MaxOps
    /\ "foo" \in DOMAIN Top.builder.kwargs
    /\ LET self == Top.builder
           value == TransformResult(func, self.kwargs)
           builder == TransformBuilder(self, description, value)
           caller == [scopes EXCEPT ![Len(scopes)].builder.kwargs =
                         KwargsAfterCall(@, << Unpack(value).kwargs >>)]
       IN  /\ scopes' = Append(caller, Scope("transform", self, description, builder, <<>>))
           /\ calls' = Append(calls, [op |-> "transform", scope |-> Len(scopes),
                                      self |-> self, func |-> func,
                                      description |-> description, kwargs |-> self.kwargs,
                                      value |-> value, builder |-> builder])
    /\ UNCHANGED <<nodes, raised, pc, process, backendVars>>

\* The end of the body of a transform() scope: nothing follows the yield.
TransformExit ==
    /\ Building
    /\ Top.kind = "transform"
    /\ scopes' = Pop(scopes)
    /\ calls' = Append(calls, Exit(Top, "return"))
    /\ UNCHANGED <<nodes, raised, pc, process, backendVars>>

\* builder.expected_arguments(**expectations)
BuilderExpectedArguments(expectations) ==
    /\ Building /\ NumOps < MaxOps
    /\ LET self == Top.builder
           error == ExpectedArguments(self.kwargs, expectations, 1)
       IN  /\ raised' = error
           /\ calls' = Append(calls, [op |-> "expected_arguments", self |-> self,
                                      expectations |-> expectations, error |-> error])
    /\ UNCHANGED <<nodes, scopes, pc, process, backendVars>>

\* A statement of define_process raises.
Raise(error) ==
    /\ Building /\ NumOps < MaxOps
    /\ raised' = error
    /\ calls' = Append(calls, [op |-> "raise", error |-> error])
    /\ UNCHANGED <<nodes, scopes, pc, process, backendVars>>

\* BuildProcessThrow written as try/finally: the node is appended although
\* the body raised.
BuildProcessThrowFinally(ns, scope) == StepsAppend(ns, scope.self, Ref(scope.builder.process))

\* _build_process when the error is thrown in at its yield: the generator
\* does not catch it and the statement after the yield is not reached.
BuildProcessThrow(ns, scope) == ns

\* Propagate with the slip that a transform scope or an each loop the error
\* leaves takes back the Steps registered through its Builder.
PropagateUndoing ==
    /\ pc = "building" /\ raised # None /\ scopes # <<>>
    /\ nodes' = IF Top.kind = "block" THEN BuildProcessThrow(nodes, Top)
                ELSE IF Top.kind \in {"transform", "each"}
                     THEN [nodes EXCEPT ![Top.builder.process].steps =
                              SelectSeq(@, LAMBDA c : ~(c.type = "Step"
                                                        /\ c.kwargs = Top.builder.kwargs))]
                     ELSE nodes
    /\ scopes' = Pop(scopes)
    /\ calls' = Append(calls, Exit(Top, "raise"))
    /\ pc' = IF Len(scopes) = 1 THEN "failed" ELSE pc
    /\ UNCHANGED <<raised, process, backendVars>>

\* The error leaves the innermost open scope: a context manager's generator
\* gets it at its yield, a for loop and a define_process call are left; out
\* of the definition's own define_process it leaves build().
Propagate ==
    /\ pc = "building" /\ raised # None /\ scopes # <<>>
    /\ nodes' = IF Top.kind = "block" THEN BuildProcessThrow(nodes, Top) ELSE nodes
    /\ scopes' = Pop(scopes)
    /\ calls' = Append(calls, Exit(Top, "raise"))
    /\ pc' = IF Len(scopes) = 1 THEN "failed" ELSE pc
    /\ UNCHANGED <<raised, process, backendVars>>

\* A try statement of define_process around the statement the error came out
\* of catches it.
Catch ==
    /\ pc = "building" /\ raised # None /\ scopes # <<>>
    /\ raised' = None
    /\ calls' = Append(calls, [op |-> "catch", error |-> raised])
    /\ UNCHANGED <<nodes, scopes, pc, process, backendVars>>

\* cls().define_process(builder) returned: return builder.process
BuildReturn ==
    /\ Building
    /\ Len(scopes) = 1
    /\ process' = TreeOf(nodes, scopes[1].builder.process)
    /\ pc' = "built"
    /\ scopes' = <<>>
    /\ UNCHANGED <<nodes, calls, raised, backendVars>>

\* build() of definitions that open scopes of every kind.
NextBuild ==
    \/ \E i \in Visible, func \in ScopeTaskMethods : BuilderTask(i, func, None)
    \/ \E process_type \in ProcessTypes : BuildProcessEnter(process_type, None)
    \/ BuildProcessExit
    \/ \E definition \in SubProcessDefinitions : SubProcessEnter(definition, None)
    \/ SubProcessExit
    \/ \E func \in EachMethods : EachEnter(func, None)
    \/ EachNext
    \/ \E func \in TransformMethods : TransformEnter(func, None)
    \/ TransformExit
    \/ Raise(RuntimeError)
    \/ Propagate
    \/ Catch
    \/ BuildReturn
    \/ EnqueueProcess

SpecBuild == InitBuild /\ [][NextBuild]_vars

\* build() of definitions whose define_process returns, and the enqueue of
\* the tree it built.
NextScopes ==
    \/ \E i \in Visible, func \in ScopeTaskMethods : BuilderTask(i, func, None)
    \/ \E process_type \in ProcessTypes : BuildProcessEnter(process_type, None)
    \/ BuildProcessExit
    \/ \E definition \in SubProcessDefinitions : SubProcessEnter(definition, None)
    \/ SubProcessExit
    \/ \E func \in EachMethods : EachEnter(func, None)
    \/ EachNext
    \/ \E func \in TransformMethods : TransformEnter(func, None)
    \/ TransformExit
    \/ BuildReturn
    \/ EnqueueProcess

SpecScopes == InitBuild /\ [][NextScopes]_vars

\* build() of definitions that check their arguments and register tasks of
\* every kind, with and without descriptions, in blocks with and without.
NextTask ==
    \/ \E i \in Visible, func \in TaskMethods, description \in TaskDescriptions :
          BuilderTask(i, func, description)
    \/ \E process_type \in ProcessTypes, description \in BlockDescriptions :
          BuildProcessEnter(process_type, description)
    \/ BuildProcessExit
    \/ \E expectations \in ExpectationChoices : BuilderExpectedArguments(expectations)
    \/ Propagate
    \/ Catch
    \/ BuildReturn

SpecTask == InitBuild /\ [][NextTask]_vars


\* ------------------------------ the worker, with the objects of its calls
\* The code a worker process runs load_definition in: the modules it can
\* import, the definition classes they hold, whether a class can be
\* instantiated, and the methods a definition has.  The first is the code the
\* process was built from.
Environments ==
    { [modules |-> {"tests.examples"}, classes |-> {"Main", "Sub"},
       instantiable |-> TRUE, functions |-> {"foo", "foo_task"}],
      [modules |-> {}, classes |-> {},
       instantiable |-> TRUE, functions |-> {}],
      [modules |-> {"tests.examples"}, classes |-> {"Sub"},
       instantiable |-> TRUE, functions |-> {"foo", "foo_task"}],
      [modules |-> {"tests.examples"}, classes |-> {"Main", "Sub"},
       instantiable |-> FALSE, functions |-> {"foo", "foo_task"}],
      [modules |-> {"tests.examples"}, classes |-> {"Main", "Sub"},
       instantiable |-> TRUE, functions |-> {"foo_task"}] }

\* load_definition(module_name, definition_class): the error it raises, or
\* None when it returns an instance.
LoadDefinition(env, u) ==
    IF u.module_name \notin env.modules THEN "ImportError"
    ELSE IF u.definition_class \notin env.classes THEN "AttributeError"
    ELSE IF ~env.instantiable THEN TypeError
    ELSE None

\* getattr(definition, function_name): the error it raises, or None.
GetAttr(env, u) ==
    IF u.function_name \in env.functions THEN None ELSE "AttributeError"

\* Objects are numbered as they are created; 0 is no object.  The objects the
\* calls made so far have created or were given, and so may have written to.
UsedObjects ==
    {0} \cup UNION { UNION { { log[j][i].self, log[j][i].context } :
                               i \in { k \in 1..Len(log[j]) : "self" \in DOMAIN log[j][k] } } :
                     j \in DOMAIN log }

\* A constructor call returns an object that did not exist before.
NewObject == 1 + (CHOOSE n \in UsedObjects : \A m \in UsedObjects : m <= n)

\* DefinitionInstance with the slip that the instance made for a definition
\* class is kept and handed out again.
DefinitionInstanceCached(u) ==
    LET made == UNION { { log[j][i].self :
                            i \in { k \in 1..Len(log[j]) :
                                      /\ log[j][k].ev = "load_definition"
                                      /\ log[j][k].step = u.definition_class
                                      /\ log[j][k].error = None } } : j \in DOMAIN log }
    IN  IF made # {} THEN CHOOSE n \in made : \A m \in made : n <= m
        ELSE NewObject

\* definition_type(): load_definition returns a new instance.
DefinitionInstance(u) == NewObject

\* The entries of a call's log with the objects they are about: load_definition
\* returns `definition`, on which the hooks and the task function are called;
\* around_task is given around_context, and Context() returns task_context,
\* which the task function is given.  `dirty` says that an earlier call has
\* used one of the entry's objects.
Bound(events, definition, around_context, task_context) ==
    [ i \in 1..Len(events) |->
        LET e == events[i]
            self == IF e.ev \in {"load_definition", "on_started", "on_completed",
                                 "around_task.before", "task_func", "around_task.after",
                                 "on_failed", "on_cancelled"}
                    THEN definition ELSE 0
            context == IF e.ev \in {"around_task.before", "around_task.after"}
                       THEN around_context
                       ELSE IF e.ev \in {"Context", "task_func"} THEN task_context
                       ELSE 0
        IN  [ev |-> e.ev, job |-> e.job, identifier |-> e.identifier,
             step |-> e.step, error |-> e.error,
             self |-> self, context |-> context,
             dirty |-> (self \in UsedObjects \ {0}) \/ (context \in UsedObjects \ {0})] ]

\* Backend.perform_start in the worker's code env.
PerformStartIn(u, env) ==
    LET error == LoadDefinition(env, u) IN
    IF error # None
    THEN [log |-> Bound(<< Event("load_definition", NoJob, None, u.definition_class, error) >>,
                        0, 0, 0),
          raised |-> error]
    ELSE [log |-> Bound(PerformStart(u).log, DefinitionInstance(u), 0, 0),
          raised |-> PerformStart(u).raised]

\* PerformTaskIn with the first three statements inside the try: an error of
\* load_definition or getattr is classified by the except clauses.
PerformTaskInTry(job, u, env, scope, outcome) ==
    LET load == Event("load_definition", NoJob, None, u.definition_class, LoadDefinition(env, u))
        attr == Event("getattr", NoJob, None, u.function_name, GetAttr(env, u))
        r == PerformTask(job, u, scope, outcome)
    IN  IF load.error # None
        THEN [log |-> Bound(<< load >> \o Except(job, u, load.error).log, 0, 0, 0),
              raised |-> Except(job, u, load.error).raised]
        ELSE IF attr.error # None
             THEN [log |-> Bound(<< load, attr >> \o Except(job, u, attr.error).log,
                                 DefinitionInstance(u), 0, 0),
                   raised |-> Except(job, u, attr.error).raised]
             ELSE [log |-> Bound(r.log, DefinitionInstance(u), NewObject + 1, NewObject + 1),
                   raised |-> r.raised]

\* Backend.perform_task in the worker's code env: load_definition, getattr
\* and Context() come before the try statement, so an error of the first two
\* leaves the call at once; after them the call is PerformTask, with
\* `context` given both to around_task and to the task function.
PerformTaskIn(job, u, env, scope, outcome) ==
    LET load == Event("load_definition", NoJob, None, u.definition_class, LoadDefinition(env, u))
        attr == Event("getattr", NoJob, None, u.function_name, GetAttr(env, u))
        r == PerformTask(job, u, scope, outcome)
        context == NewObject + 1
    IN  IF load.error # None
        THEN [log |-> Bound(<< load >>, 0, 0, 0), raised |-> load.error]
        ELSE IF attr.error # None
             THEN [log |-> Bound(<< load, attr >>, DefinitionInstance(u), 0, 0),
                   raised |-> attr.error]
             ELSE [log |-> Bound(r.log, DefinitionInstance(u), context, context),
                   raised |-> r.raised]

\* Backend.perform_complete in the worker's code env.
PerformCompleteIn(u, env) ==
    LET error == LoadDefinition(env, u) IN
    IF error # None
    THEN [log |-> Bound(<< Event("load_definition", NoJob, None, u.definition_class, error) >>,
                        0, 0, 0),
          raised |-> error]
    ELSE [log |-> Bound(PerformComplete(u).log, DefinitionInstance(u), 0, 0),
          raised |-> PerformComplete(u).raised]

\* A worker runs a unit in the code it has.
WorkerStart(j) ==
    /\ Runnable(j)
    /\ queue[j].call = "perform_start"
    /\ \E env \in Environments : Work(j, PerformStartIn(queue[j], env))

WorkerTask(j) ==
    /\ Runnable(j)
    /\ queue[j].call = "perform_task"
    /\ \E env \in Environments, outcome \in Outcomes :
          Work(j, PerformTaskIn(j, queue[j], env, DefaultScope, outcome))

WorkerComplete(j) ==
    /\ Runnable(j)
    /\ queue[j].call = "perform_complete"
    /\ \E env \in Environments : Work(j, PerformCompleteIn(queue[j], env))

NextWorker ==
    \/ EnqueueProcess
    \/ \E j \in DOMAIN queue : WorkerStart(j)
    \/ \E j \in DOMAIN queue : WorkerTask(j)
    \/ \E j \in DOMAIN queue : WorkerComplete(j)

SpecWorker == InitRetry /\ [][NextWorker]_vars

\* ------------------------------------- definitions that override around_task
\* What an around_task of a definition does around the yield: each part
\* returns or raises one of the errors.
AroundTaskScopes == [before : Outcomes, after : Outcomes]

\* A worker runs a task unit of a definition whose around_task is any of the
\* scopes, in the code it has.  What a part that is not reached would have
\* done makes no difference, so it is taken to return.
WorkerTaskAround(j) ==
    /\ Runnable(j)
    /\ queue[j].call = "perform_task"
    /\ \E env \in Environments, scope \in AroundTaskScopes, outcome \in Outcomes :
          /\ scope.before # None => outcome = None /\ scope.after = None
          /\ outcome # None => scope.after = None
          /\ Work(j, PerformTaskIn(j, queue[j], env, scope, outcome))

NextAround ==
    \/ EnqueueProcess
    \/ \E j \in DOMAIN queue : WorkerStart(j)
    \/ \E j \in DOMAIN queue : WorkerTaskAround(j)
    \/ \E j \in DOMAIN queue : WorkerComplete(j)

SpecAround == InitRetry /\ [][NextAround]_vars

\* =================================================================
\* Properties
\* =================================================================
RECURSIVE NodeAt(_, _)
\* The node of the tree at a path (the root at <<>>).
NodeAt(node, path) ==
    IF path = <<>> THEN node ELSE NodeAt(node.steps[Head(path)], Tail(path))

IsPrefix(a, b) == Len(a) <= Len(b) /\ SubSeq(b, 1, Len(a)) = a

\* The paths of the Process nodes of the enqueued tree.
ProcessPaths == { queue[j].path : j \in { k \in Jobs(queue) : queue[k].call = "perform_complete" } }

TaskJobs == { j \in Jobs(queue) : queue[j].call = "perform_task" }
StartJobs == { j \in Jobs(queue) : queue[j].call = "perform_start" }
CompleteJobs == { j \in Jobs(queue) : queue[j].call = "perform_complete" }

\* The task unit of the Step at a path; the completion unit of the node at a path.
TaskJob(path) == CHOOSE j \in TaskJobs : queue[j].path = path
CompleteJob(path) == CHOOSE j \in CompleteJobs : queue[j].path = path

\* The task units of the subtree at a path.
TaskJobsUnder(path) == { j \in TaskJobs : IsPrefix(path, queue[j].path) }

\* The entries of a job's log with a given name.
Calls(j, ev) == { i \in 1..Len(log[j]) : log[j][i].ev = ev }

\* The perform_* call of job j has run.
HasRun(j) == log[j] # <<>>

\* The task function of job j was invoked and ended with `outcome`.
TaskEnded(j, outcome) ==
    \E i \in Calls(j, "task_func") : log[j][i].error = outcome

\* How the perform_* call of job j ended.
LastEvent(j) == log[j][Len(log[j])]

\* ----------------------------------------------------------------- C1
\* C1: a SequentialProcess whose children are all Steps, enqueued without a
\* start job, yields exactly: one start unit without dependency, one task unit
\* per Step in list order where the first depends on the start unit and every
\* other on the task unit of the Step before it, and one completion unit
\* (the returned job) that depends on the last Step's unit.
C1_SequentialChain ==
    (pc = "enqueued" /\ process.type = SequentialProcess /\ OnlySteps(process)) =>
        LET n == Len(process.steps) IN
        /\ Cardinality(StartJobs) = 1
        /\ Cardinality(TaskJobs) = n
        /\ Cardinality(CompleteJobs) = 1
        /\ \A s \in StartJobs :
              /\ queue[s].depends_on = DependsOnNone
              /\ \A i \in 1..n :
                    /\ \E j \in TaskJobs : queue[j].path = <<i>>
                    /\ queue[TaskJob(<<i>>)].function_name = process.steps[i].func
                    /\ queue[TaskJob(<<i>>)].depends_on =
                          DependsOnJob(IF i = 1 THEN s ELSE TaskJob(<<i - 1>>))
              /\ queue[rootJob].call = "perform_complete"
              /\ queue[rootJob].depends_on =
                    DependsOnJob(IF n = 0 THEN s ELSE TaskJob(<<n>>))

\* A sequential process of three Steps has been enqueued.
C1_Witness ==
    /\ pc = "enqueued"
    /\ process.type = SequentialProcess
    /\ OnlySteps(process)
    /\ Len(process.steps) = 3
    /\ Len(queue) = 5

\* ----------------------------------------------------------------- C2
\* C2: a ConcurrentProcess whose children are all Steps yields exactly: one
\* start unit without dependency, one task unit per Step each depending on the
\* start unit and on nothing else, and one completion unit (the returned job)
\* whose dependency is the list of the Steps' units in list order.
C2_ConcurrentFanOut ==
    (pc = "enqueued" /\ process.type = ConcurrentProcess /\ OnlySteps(process)) =>
        LET n == Len(process.steps) IN
        /\ Cardinality(StartJobs) = 1
        /\ Cardinality(TaskJobs) = n
        /\ Cardinality(CompleteJobs) = 1
        /\ \A s \in StartJobs :
              /\ queue[s].depends_on = DependsOnNone
              /\ \A i \in 1..n :
                    /\ \E j \in TaskJobs : queue[j].path = <<i>>
                    /\ queue[TaskJob(<<i>>)].function_name = process.steps[i].func
                    /\ queue[TaskJob(<<i>>)].depends_on = DependsOnJob(s)
                    /\ Ancestors(queue, TaskJob(<<i>>)) = {s}
              /\ queue[rootJob].call = "perform_complete"
              /\ queue[rootJob].depends_on =
                    DependsOnList([i \in 1..n |-> TaskJob(<<i>>)])

\* A concurrent process of three Steps has been enqueued.
C2_Witness ==
    /\ pc = "enqueued"
    /\ process.type = ConcurrentProcess
    /\ OnlySteps(process)
    /\ Len(process.steps) = 3
    /\ Len(queue) = 5

\* ----------------------------------------------------------------- C3
\* C3: for every Sequential node of the enqueued tree and every two of its
\* children at positions i < j, every task unit of child j's subtree
\* transitively depends on every task unit of child i's subtree.
C3_SequentialOrder ==
    pc = "enqueued" =>
        \A path \in ProcessPaths :
            NodeAt(process, path).type = SequentialProcess =>
                \A i, j \in 1..Len(NodeAt(process, path).steps) :
                    i < j =>
                        \A x \in TaskJobsUnder(Append(path, i)) :
                            \A y \in TaskJobsUnder(Append(path, j)) :
                                x \in Ancestors(queue, y)

\* ----------------------------------------------------------------- C4
\* C4: the completion unit enqueue returns for the root transitively depends
\* on every task unit of the tree, and so the root's on_completed has run only
\* when every task unit has finished.
C4_RootCompletionLast ==
    pc = "enqueued" =>
        /\ \A t \in TaskJobs : t \in Ancestors(queue, rootJob)
        /\ Calls(rootJob, "on_completed") # {} =>
              \A t \in TaskJobs : status[t] = "finished"

\* ----------------------------------------------------------------- C5
\* C5: when the task function of a perform_task call raises
\* NonRetryableProcessError, on_failed is invoked exactly once, with the
\* identifier, the function name and that error, perform_task raises the same
\* error, and neither job.cancel() nor job.delete_dependents() is called.
C5_NonRetryable ==
    pc = "enqueued" =>
        \A j \in TaskJobs :
            TaskEnded(j, NonRetryableProcessError) =>
                /\ Cardinality(Calls(j, "on_failed")) = 1
                /\ \A i \in Calls(j, "on_failed") :
                      /\ log[j][i].identifier = queue[j].identifier
                      /\ log[j][i].step = queue[j].function_name
                      /\ log[j][i].error = NonRetryableProcessError
                /\ LastEvent(j).ev = "raise"
                /\ LastEvent(j).error = NonRetryableProcessError
                /\ Calls(j, "job.cancel") = {}
                /\ Calls(j, "job.delete_dependents") = {}
                /\ status[j] = "failed"

\* A task that has units downstream raised NonRetryableProcessError.
C5_Witness ==
    /\ pc = "enqueued"
    /\ \E j \in TaskJobs :
          /\ TaskEnded(j, NonRetryableProcessError)
          /\ Dependents(queue, j) # {}

\* ----------------------------------------------------------------- C6
\* C6: when the task function raises CancelProcessError, job.cancel() and
\* job.delete_dependents() are each called exactly once, on the job of the
\* task itself, on_cancelled is invoked exactly once, on_failed is not
\* invoked, and perform_task returns normally.
C6_Cancel ==
    pc = "enqueued" =>
        \A j \in TaskJobs :
            TaskEnded(j, CancelProcessError) =>
                /\ Cardinality(Calls(j, "job.cancel")) = 1
                /\ Cardinality(Calls(j, "job.delete_dependents")) = 1
                /\ \A i \in Calls(j, "job.cancel") \cup Calls(j, "job.delete_dependents") :
                      log[j][i].job = j
                /\ Cardinality(Calls(j, "on_cancelled")) = 1
                /\ Calls(j, "on_failed") = {}
                /\ Calls(j, "raise") = {}
                /\ LastEvent(j).ev = "return"

\* A task raised CancelProcessError.
C6_Witness ==
    /\ pc = "enqueued"
    /\ \E j \in TaskJobs :
          /\ TaskEnded(j, CancelProcessError)
          /\ status[j] = "canceled"

C8_AroundTask ==
    pc = "enqueued" =>
        \A j \in TaskJobs :
            HasRun(j) =>
                /\ \A t \in Calls(j, "task_func") :
                      /\ \E b \in Calls(j, "around_task.before") : b < t
                      /\ log[j][t].error = None =>
                            /\ Cardinality(Calls(j, "around_task.after")) = 1
                            /\ \A a \in Calls(j, "around_task.after") : t < a
                      /\ log[j][t].error # None =>
                            Calls(j, "around_task.after") = {}
                /\ Cardinality(Calls(j, "task_func")) = 1

\* One task returned normally and another raised, each inside its scope.
C8_Witness ==
    /\ pc = "enqueued"
    /\ \E j \in TaskJobs : TaskEnded(j, None) /\ Calls(j, "around_task.after") # {}
    /\ \E j \in TaskJobs :
          /\ \E e \in ErrorClasses : TaskEnded(j, e)
          /\ Calls(j, "around_task.before") # {}

\* ----------------------------------------------------------------- C9
\* C9: once a Step of a Sequential node has raised CancelProcessError, no
\* task unit of a later child of that node (a Step, or any task inside a
\* later nested Sequential or Concurrent node) is executed any more, and the
\* on_completed of the node's completion unit and of the root's is never
\* invoked.
C9_CancelHalts ==
    [][ pc = "enqueued" =>
          \A path \in ProcessPaths :
              NodeAt(process, path).type = SequentialProcess =>
                  \A i \in 1..Len(NodeAt(process, path).steps) :
                      (/\ ~IsProcess(NodeAt(process, path).steps[i])
                       /\ TaskEnded(TaskJob(Append(path, i)), CancelProcessError)) =>
                          /\ \A k \in (i + 1)..Len(NodeAt(process, path).steps) :
                                \A y \in TaskJobsUnder(Append(path, k)) :
                                    log'[y] = log[y]
                          /\ \A c \in {CompleteJob(path), rootJob} :
                                \A n \in 1..Len(log'[c]) :
                                    log'[c][n].ev # "on_completed"
      ]_vars

C11_NonRetryableNotRetried ==
    pc = "enqueued" =>
        \A j \in TaskJobs :
            \A i \in Calls(j, "task_func") :
                log[j][i].error = NonRetryableProcessError =>
                    \A k \in Calls(j, "task_func") : k <= i

\* ---------------------------------------------------------------- C20
StartJob(path) == CHOOSE j \in StartJobs : queue[j].path = path

Front(path) == SubSeq(path, 1, Len(path) - 1)

RECURSIVE PassedStartJob(_)
\* The start_job argument the enqueue of the nested node at `path` was called
\* with by its parent: a Concurrent parent passes its own start job; a
\* Sequential parent passes its current job, which is the job it started
\* with for its first child and the job of the child before otherwise.
PassedStartJob(path) ==
    LET parent == Front(path)
        i == path[Len(path)]
        node == NodeAt(process, parent)
    IN  IF node.type = ConcurrentProcess THEN StartJob(parent)
        ELSE IF i = 1
             THEN (IF parent = <<>> THEN StartJob(parent) ELSE PassedStartJob(parent))
             ELSE IF IsProcess(node.steps[i - 1])
                  THEN CompleteJob(Append(parent, i - 1))
                  ELSE TaskJob(Append(parent, i - 1))

References(n) ==
    UNION { { <<m, k>> : k \in { i \in 1..Len(nodes[m].steps) :
                                    /\ nodes[m].steps[i].type = "ref"
                                    /\ nodes[m].steps[i].node = n } } :
            m \in 1..Len(nodes) }

RECURSIVE RegisteredSteps(_, _)
\* What the calls made so far, from the i-th, register on the Process object
\* n, in order: the Step of every task call on a Builder of n and the node of
\* every sequential, concurrent or sub_process scope opened on a Builder of n
\* that has ended normally.
RegisteredSteps(n, i) ==
    IF i > Len(calls) THEN <<>>
    ELSE LET c == calls[i] IN
         IF c.op = "task" /\ c.self.process = n
         THEN << c.step >> \o RegisteredSteps(n, i + 1)
         ELSE IF /\ c.op = "exit"
                 /\ c.kind \in {"block", "sub_process"}
                 /\ c.how = "return"
                 /\ c.self.process = n
              THEN << Ref(c.builder.process) >> \o RegisteredSteps(n, i + 1)
              ELSE RegisteredSteps(n, i + 1)

\* C12: a sequential() or concurrent() scope that an error has left has
\* appended no node (nothing refers to its Process object, and its parent
\* holds what was registered on it otherwise); a scope that ended normally
\* has appended exactly one node, to its parent, of the variant of the call,
\* holding the children registered inside the scope.
C12_NoPartialBlock ==
    \A x \in 1..Len(calls) :
        (calls[x].op = "exit" /\ calls[x].kind = "block") =>
            LET n == calls[x].builder.process
                parent == calls[x].self.process
            IN  /\ nodes[parent].steps = RegisteredSteps(parent, 1)
                /\ calls[x].how = "raise" => References(n) = {}
                /\ calls[x].how = "return" =>
                      /\ Cardinality(References(n)) = 1
                      /\ \A r \in References(n) : r[1] = parent
                      /\ \E y \in 1..(x - 1) :
                            /\ calls[y].op \in {"sequential", "concurrent"}
                            /\ calls[y].builder = calls[x].builder
                            /\ nodes[n].type = (IF calls[y].op = "sequential"
                                                THEN SequentialProcess
                                                ELSE ConcurrentProcess)
                      /\ nodes[n].steps = RegisteredSteps(n, 1)

\* A task was registered inside a block, and then an error raised in the
\* block has left it.
C12_Witness ==
    \E x \in 1..Len(calls) :
        /\ calls[x].op = "exit" /\ calls[x].kind = "block" /\ calls[x].how = "raise"
        /\ nodes[calls[x].builder.process].steps # <<>>

\* ---------------------------------------------------------------- C13
\* The yields of the each call at position x of `calls`, and its end.
YieldsOf(x) ==
    { y \in (x + 1)..Len(calls) :
        /\ calls[y].op = "yield"
        /\ \A z \in (x + 1)..y : calls[z].op # "each" }

EachEnded(x) ==
    \E y \in (x + 1)..Len(calls) :
        /\ calls[y].op = "exit" /\ calls[y].kind = "each" /\ calls[y].how = "return"
        /\ \A z \in (x + 1)..y : calls[z].op # "each"

\* C13: an each call over a generator that yields k items yields at most k
\* Builders, and exactly k once the loop has ended; the i-th Builder has as
\* kwargs exactly the i-th yielded bag (no key of the enclosing kwargs that
\* the bag lacks), and so has every Step registered through it.
C13_EachBuilders ==
    \A x \in 1..Len(calls) :
        calls[x].op = "each" =>
            LET k == Len(calls[x].items) IN
            /\ Cardinality(YieldsOf(x)) <= k
            /\ EachEnded(x) => Cardinality(YieldsOf(x)) = k
            /\ \A y \in YieldsOf(x) :
                  LET i == Cardinality({ z \in YieldsOf(x) : z <= y })
                      bag == calls[x].items[i].kwargs
                  IN  /\ calls[y].builder.kwargs = bag
                      /\ DOMAIN calls[y].builder.kwargs = DOMAIN bag
                      /\ \A t \in (y + 1)..Len(calls) :
                            (calls[t].op = "task" /\ calls[t].self = calls[y].builder) =>
                                /\ calls[t].step.kwargs = bag
                                /\ \E n \in 1..Len(nodes[calls[t].self.process].steps) :
                                      LET child == nodes[calls[t].self.process].steps[n] IN
                                      child.type = "Step" /\ child = calls[t].step

\* An each loop over two items has ended, with a task registered through the
\* Builder of each item.
C13_Witness ==
    \E x \in 1..Len(calls) :
        /\ calls[x].op = "each"
        /\ Len(calls[x].items) = 2
        /\ EachEnded(x)
        /\ \A y \in YieldsOf(x) :
              \E t \in (y + 1)..Len(calls) :
                  /\ calls[t].op = "task"
                  /\ calls[t].self = calls[y].builder
                  /\ "foo" \notin DOMAIN calls[t].step.kwargs

\* ---------------------------------------------------------------- C14
\* C14: the Builders yielded by each and transform hold the Process object
\* of the Builder they were called on; each and transform add no Process
\* object; and the children of every Process object are exactly what was
\* registered on it through any of its Builders, in the order of the calls,
\* so that a task registered through a yielded Builder is a sibling of the
\* tasks registered on the creating Builder.
C14_SameNode ==
    /\ \A x \in 1..Len(calls) :
          /\ calls[x].op = "transform" => calls[x].builder.process = calls[x].self.process
          /\ calls[x].op = "each" =>
                \A y \in YieldsOf(x) : calls[y].builder.process = calls[x].self.process
    /\ Len(nodes) = 1 + Cardinality({ x \in 1..Len(calls) :
                                        calls[x].op \in {"sequential", "concurrent", "sub_process"} })
    /\ \A n \in 1..Len(nodes) : nodes[n].steps = RegisteredSteps(n, 1)

\* Inside an each loop or a transform scope opened on the root Builder a
\* task was registered through the yielded Builder and then one on the root
\* Builder; the root holds the two Steps in that order, each with the kwargs
\* of its Builder.
C14_Witness ==
    /\ Len(calls) >= 3
    /\ calls[1].op \in {"each", "transform"}
    /\ \E t, u \in 2..Len(calls) :
          /\ t < u
          /\ calls[t].op = "task" /\ calls[t].self.kwargs # BuildKwargs
          /\ calls[u].op = "task" /\ calls[u].self.kwargs = BuildKwargs
          /\ nodes[1].steps = << calls[t].step, calls[u].step >>

\* ---------------------------------------------------------------- C15
\* C15: a transform call is one call of the transform function on the
\* kwargs of the Builder it is made on, and yields one Builder on the
\* returned bag, which replaces the kwargs ({foo: 4} doubled gives exactly
\* {bar: 8}) for every Step registered through it; when the function returns
\* a (bag, description) pair the Builder has the returned description.
C15_Transform ==
    \A x \in 1..Len(calls) :
        calls[x].op = "transform" =>
            LET c == calls[x] IN
            /\ c.kwargs = c.self.kwargs
            /\ c.value = TransformResult(c.func, c.self.kwargs)
            /\ c.builder.kwargs = c.value.kwargs
            /\ DOMAIN c.builder.kwargs = DOMAIN c.value.kwargs
            /\ c.self.kwargs.foo = PyInt(4) => c.builder.kwargs = [bar |-> PyInt(8)]
            /\ c.value.isTuple => c.builder.description = c.value.desc
            /\ \A t \in (x + 1)..Len(calls) :
                  (calls[t].op = "task" /\ calls[t].self = c.builder) =>
                      calls[t].step.kwargs = c.value.kwargs

\* Inside a transform scope whose function returned a pair, a task was
\* registered: its Step has the doubled bag and the returned description.
C15_Witness ==
    \E x \in 1..Len(calls) :
        /\ calls[x].op = "transform"
        /\ calls[x].value.isTuple
        /\ \E t \in (x + 1)..Len(calls) :
              /\ calls[t].op = "task"
              /\ calls[t].self = calls[x].builder
              /\ calls[t].step.kwargs = [bar |-> PyInt(8)]
              /\ calls[t].step.description = "Item 4"

\* ---------------------------------------------------------------- C16
\* C16: when build() of a definition with the default sequential mode has
\* returned and the calls of its define_process were N task registrations on
\* the root Builder and nothing else, the returned root is a
\* SequentialProcess with exactly N children: the Steps of those
\* registrations, in their order.
C16_DirectTasks ==
    (/\ pc \in {"built", "enqueued"}
     /\ ExecutionMode(process.definition) = SequentialProcess
     /\ \A x \in 1..Len(calls) : calls[x].op = "task" /\ calls[x].self.process = 1) =>
        /\ process.type = SequentialProcess
        /\ Len(process.steps) = Len(calls)
        /\ \A i \in 1..Len(calls) :
              /\ process.steps[i].type = "Step"
              /\ process.steps[i] = calls[i].step
              /\ process.steps[i].func = calls[i].func.name
              /\ process.steps[i].kwargs = BuildKwargs

\* build() has returned a root with three Steps, registered as foo_task,
\* foo, foo_task.
C16_Witness ==
    /\ pc = "built"
    /\ ExecutionMode(process.definition) = SequentialProcess
    /\ Len(calls) = 3
    /\ \A x \in 1..3 : calls[x].op = "task"
    /\ << process.steps[1].func, process.steps[2].func, process.steps[3].func >>
          = << "foo_task", "foo", "foo_task" >>

\* ---------------------------------------------------------------- C17
RECURSIVE NodeIdentifiers(_)
\* The identifiers of the Process nodes of a tree.
NodeIdentifiers(node) ==
    {node.identifier}
    \cup UNION { NodeIdentifiers(node.steps[i]) :
                   i \in { k \in 1..Len(node.steps) : IsProcess(node.steps[k]) } }

\* C17: every Process object made during one build(), and so every Process
\* node of the tree it returns, carries the identifier of the root; every
\* start, task and completion unit enqueued for that tree carries it too.
C17_OneIdentifier ==
    /\ \A n \in 1..Len(nodes) : nodes[n].identifier = nodes[1].identifier
    /\ pc \in {"built", "enqueued"} =>
          /\ process.identifier = nodes[1].identifier
          /\ NodeIdentifiers(process) = {process.identifier}
    /\ pc = "enqueued" =>
          \A j \in Jobs(queue) : queue[j].identifier = process.identifier

\* A build without an identifier argument returned a root that holds a block
\* that holds a sub-process of another definition with a task; the tree is
\* enqueued.
C17_Witness ==
    /\ pc = "enqueued"
    /\ process.identifier = Uuid4Hex
    /\ Len(process.steps) = 1
    /\ IsProcess(process.steps[1])
    /\ Len(process.steps[1].steps) = 1
    /\ IsProcess(process.steps[1].steps[1])
    /\ process.steps[1].steps[1].definition # process.definition
    /\ Len(process.steps[1].steps[1].steps) = 1
    /\ \E j \in Jobs(queue) :
          queue[j].call = "perform_task" /\ queue[j].path = <<1, 1, 1>>

\* ---------------------------------------------------------------- C18
\* C18: an expected_arguments call raises TypeError when the first
\* expectation that is not met names an argument absent from the kwargs,
\* ValueError when it names one that is present and does not conform to its
\* declared type (which is not None), and returns when every expectation is
\* met, where an expectation with the type None is met by any present value;
\* kwargs without an expectation play no part.  An error that leaves
\* define_process makes build() fail: no process is returned, and build()
\* returns only when every failed check was caught.
C18_ExpectedArguments ==
    /\ \A x \in 1..Len(calls) :
          calls[x].op = "expected_arguments" =>
              LET kwargs == calls[x].self.kwargs
                  e == calls[x].expectations
                  absent == { i \in 1..Len(e) : e[i].name \notin DOMAIN kwargs }
                  mismatch == { i \in 1..Len(e) :
                                  /\ e[i].name \in DOMAIN kwargs
                                  /\ e[i].type # None
                                  /\ kwargs[e[i].name].py # e[i].type }
                  unmet == absent \cup mismatch
              IN  /\ unmet = {} <=> calls[x].error = None
                  /\ \A i \in unmet :
                        (\A k \in unmet : i <= k) =>
                            calls[x].error = (IF i \in absent THEN TypeError ELSE ValueError)
                  /\ \E name \in DOMAIN kwargs : \A i \in 1..Len(e) : e[i].name # name
    /\ pc = "failed" => process = None /\ raised # None
    /\ pc = "built" =>
          /\ raised = None
          /\ \A x \in 1..Len(calls) :
                (calls[x].op = "expected_arguments" /\ calls[x].error # None) =>
                    \E y \in (x + 1)..Len(calls) : calls[y].op = "catch"

\* Inside a block, after a task was registered, expected_arguments(foo=str,
\* quux=int) on kwargs with foo = 4 and no quux raised ValueError, and the
\* error has left build().
C18_Witness ==
    /\ pc = "failed"
    /\ process = None
    /\ \E x \in 2..Len(calls) :
          /\ calls[x].op = "expected_arguments"
          /\ calls[x].expectations = << Expect("foo", "str"), Expect("quux", "int") >>
          /\ calls[x].error = ValueError
          /\ calls[x].self.process # 1
          /\ raised = ValueError

\* ---------------------------------------------------------------- C19
\* C19 as stated: the description of the Step of a task call is the explicit
\* argument if given, otherwise the description attached to the function if
\* it carries a non-null one, otherwise the Builder's description.
C19_Precedence ==
    \A x \in 1..Len(calls) :
        calls[x].op = "task" =>
            LET c == calls[x] IN
            c.step.description =
                (IF c.description # None THEN c.description
                 ELSE IF c.func.has_description /\ c.func.description # None
                      THEN c.func.description
                      ELSE c.self.description)

\* C19 amended: the description of the Step of a task call is the explicit
\* argument if given; otherwise the description attribute of the function if
\* the function has one, also when that attribute is None (a function
\* decorated with @task without a description): the Step then has no
\* description whatever the Builder's is; otherwise, for a function without
\* the attribute, the Builder's description.
C19_PrecedenceAttached ==
    \A x \in 1..Len(calls) :
        calls[x].op = "task" =>
            LET c == calls[x] IN
            c.step.description =
                (IF c.description # None THEN c.description
                 ELSE IF c.func.has_description
                      THEN c.func.description
                      ELSE c.self.description)

\* In a block with a description a task decorated with a bare @task was
\* registered without a description, and an undecorated one too: the first
\* Step has no description, the second the block's.
C19_Witness ==
    \E x, y \in 1..Len(calls) :
        /\ calls[x].op = "task" /\ calls[y].op = "task"
        /\ calls[x].self.description = "block" /\ calls[y].self.description = "block"
        /\ calls[x].description = None /\ calls[y].description = None
        /\ calls[x].func.name = "baz_task" /\ calls[x].step.description = None
        /\ calls[y].func.name = "foo" /\ calls[y].step.description = "block"

C22_FanOut ==
    pc = "enqueued" =>
        \A path \in ProcessPaths :
            NodeAt(process, path).type = ConcurrentProcess =>
                \A i \in 1..Len(NodeAt(process, path).steps) :
                    LET under == { j \in Jobs(queue) : IsPrefix(Append(path, i), queue[j].path) }
                        first == CHOOSE j \in under : \A k \in under : j <= k
                    IN  /\ queue[first].depends_on = DependsOnJob(StartJob(path))
                        /\ \A m \in 1..Len(NodeAt(process, path).steps) \ {i} :
                              \A x \in under :
                                  \A y \in Jobs(queue) :
                                      IsPrefix(Append(path, m), queue[y].path) =>
                                          y \notin Ancestors(queue, x)

\* ---------------------------------------------------------------- C23
\* C23: a sub_process(D) call makes one Process object of the variant of D's
\* execution mode, with the definition D and the Builder handed to D's
\* define_process on it; everything D registers is registered between the
\* call and its return (the construction is eager); and when the call has
\* returned, exactly one reference to that object exists, in the children of
\* the Process object of the Builder the call was made on, at the position
\* of the call among what was registered there, and the object holds the
\* children D registered.
C23_SubProcess ==
    \A x \in 1..Len(calls) :
        calls[x].op = "sub_process" =>
            LET c == calls[x]
                n == c.builder.process
                ends == { y \in (x + 1)..Len(calls) :
                            calls[y].op = "exit" /\ calls[y].kind = "sub_process"
                                /\ calls[y].builder.process = n }
            IN  /\ nodes[n].type = ExecutionMode(c.definition)
                /\ nodes[n].definition = c.definition
                /\ Cardinality(ends) <= 1
                /\ nodes[n].steps = RegisteredSteps(n, 1)
                /\ \A t \in 1..Len(calls) :
                      (calls[t].op \in {"task", "sequential", "concurrent", "sub_process"}
                          /\ calls[t].self.process = n) =>
                          /\ x < t
                          /\ \A y \in ends : t < y
                /\ ends = {} => References(n) = {}
                /\ \A y \in ends :
                      calls[y].how = "return" =>
                          /\ Cardinality(References(n)) = 1
                          /\ \A r \in References(n) : r[1] = c.self.process
                          /\ nodes[c.self.process].steps = RegisteredSteps(c.self.process, 1)

\* In a build of a sequential definition a task was registered, then
\* sub_process of a concurrent definition was called, which registered a
\* task, and has returned: the root holds the Step and then the concurrent
\* node with its Step.
C23_Witness ==
    /\ Len(calls) = 4
    /\ calls[1].op = "task"
    /\ calls[2].op = "sub_process"
    /\ calls[2].definition = ConcurrentDefinition
    /\ calls[3].op = "task"
    /\ calls[4].op = "exit" /\ calls[4].how = "return"
    /\ nodes[1].type = SequentialProcess
    /\ nodes[1].steps = << calls[1].step, Ref(2) >>
    /\ nodes[2].type = ConcurrentProcess
    /\ nodes[2].steps = << calls[3].step >>

\* ---------------------------------------------------------------- C24
\* C24: when load_definition or the lookup of the task function raised in a
\* perform_task call, the call ends at once by raising that error: around_task
\* and the task function are not invoked, no Context is made, on_failed and
\* on_cancelled are not invoked, job.cancel() and job.delete_dependents() are
\* not called; the unit is a failed unit and nothing downstream of it runs.
C24_LoadErrorsUnclassified ==
    pc = "enqueued" =>
        \A j \in TaskJobs :
            \A i \in Calls(j, "load_definition") \cup Calls(j, "getattr") :
                log[j][i].error # None =>
                    /\ Len(log[j]) = i + 1
                    /\ LastEvent(j).ev = "raise"
                    /\ LastEvent(j).error = log[j][i].error
                    /\ \A ev \in {"Context", "around_task.before", "task_func",
                                  "around_task.after", "on_failed", "on_cancelled",
                                  "job.cancel", "job.delete_dependents"} :
                          Calls(j, ev) = {}
                    /\ status[j] = "failed"
                    /\ \A k \in Dependents(queue, j) : ~HasRun(k)

\* One task unit failed in load_definition (the class is not in the module)
\* and another in the lookup of its function, each with units downstream.
C24_Witness ==
    /\ pc = "enqueued"
    /\ \E j \in TaskJobs :
          /\ \E i \in Calls(j, "load_definition") : log[j][i].error = "AttributeError"
          /\ Dependents(queue, j) # {}
    /\ \E j \in TaskJobs :
          /\ \E i \in Calls(j, "load_definition") : log[j][i].error = None
          /\ \E i \in Calls(j, "getattr") : log[j][i].error = "AttributeError"
          /\ Dependents(queue, j) # {}

C26_NoInternalRetry ==
    pc = "enqueued" =>
        \A j \in TaskJobs :
            HasRun(j) =>
                /\ Cardinality(Calls(j, "task_func")) <= 1
                /\ Cardinality(Calls(j, "around_task.before")) <= 1
                /\ Cardinality(Calls(j, "load_definition")) = 1
                /\ Calls(j, "return") \cup Calls(j, "raise") = {Len(log[j])}
                /\ (TaskEnded(j, None) \/ TaskEnded(j, CancelProcessError)) =>
                      LastEvent(j).ev = "return"
                /\ \A e \in ErrorClasses \ {CancelProcessError} :
                      TaskEnded(j, e) =>
                          LastEvent(j).ev = "raise" /\ LastEvent(j).error = e
                /\ \A i \in 1..Len(log[j]) :
                      log[j][i].job # NoJob => TaskEnded(j, CancelProcessError)

\* A task raised NotImplementedError: its function was called once and the
\* call raised; another task returned.
C26_Witness ==
    /\ pc = "enqueued"
    /\ \E j \in TaskJobs :
          /\ TaskEnded(j, NotImplementedError)
          /\ Cardinality(Calls(j, "task_func")) = 1
          /\ LastEvent(j).ev = "raise"
    /\ \E j \in TaskJobs : TaskEnded(j, None) /\ LastEvent(j).ev = "return"

C28_SameKwargsOptions ==
    \A x \in 1..Len(calls) :
        calls[x].op \in {"sequential", "concurrent", "sub_process"} =>
            LET c == calls[x] IN
            /\ c.builder.kwargs = c.self.kwargs
            /\ DOMAIN c.builder.kwargs = DOMAIN c.self.kwargs
            /\ c.builder.options = c.self.options
            /\ c.builder.options = SimpleNamespace(BuildOptions.items)
            /\ \A t \in (x + 1)..Len(calls) :
                  (calls[t].op = "task" /\ calls[t].self = c.builder) =>
                      /\ calls[t].step.kwargs = c.self.kwargs
                      /\ \E i \in 1..Len(nodes[c.builder.process].steps) :
                            nodes[c.builder.process].steps[i] = calls[t].step

\* Inside a transform scope, whose Builder has the bag {bar: 8}, a block or a
\* sub-process was opened and a task registered in it: the Step has the bag
\* {bar: 8}, not the kwargs of the build.
C28_Witness ==
    \E x, y, t \in 1..Len(calls) :
        /\ x < y /\ y < t
        /\ calls[x].op = "transform"
        /\ calls[y].op \in {"sequential", "concurrent", "sub_process"}
        /\ calls[y].self = calls[x].builder
        /\ calls[t].op = "task"
        /\ calls[t].self = calls[y].builder
        /\ calls[t].step.kwargs = [bar |-> PyInt(8)]
        /\ calls[t].step.kwargs # BuildKwargs

\* ---------------------------------------------------------------- C29
\* C29: an each or transform call leaves the kwargs of the Builder it is made
\* on as they were: every task registered on that Builder after the call,
\* inside the loop or scope and after its end, is registered on a Builder
\* equal to the one the call was made on and gets the kwargs a task
\* registered on it before the call got, whatever bags the generator yields
\* or the transform function returns.
C29_CreatorKwargsKept ==
    \A x \in 1..Len(calls) :
        calls[x].op \in {"each", "transform"} =>
            \A t \in (x + 1)..Len(calls) :
                (/\ calls[t].op = "task"
                 /\ calls[t].scope = calls[x].scope
                 /\ \A k \in x..t :
                       calls[k].op \in {"exit", "yield"} => calls[k].scope # calls[x].scope) =>
                    /\ calls[t].self = calls[x].self
                    /\ calls[t].step.kwargs = calls[x].self.kwargs
                    /\ DOMAIN calls[t].step.kwargs = DOMAIN calls[x].self.kwargs
                    /\ \A s \in 1..(x - 1) :
                          (/\ calls[s].op = "task"
                           /\ calls[s].scope = calls[x].scope
                           /\ \A k \in s..x :
                                 calls[k].op \in {"exit", "yield"} =>
                                     calls[k].scope # calls[x].scope) =>
                              calls[s].step.kwargs = calls[t].step.kwargs

\* A task was registered on the root Builder, then an each loop over two
\* items was run on it to its end, then a task was registered on the root
\* Builder again: both Steps have the kwargs of the build.
C29_Witness ==
    \E s, x, e, t \in 1..Len(calls) :
        /\ s < x /\ x < e /\ e < t
        /\ calls[s].op = "task" /\ calls[s].scope = 1
        /\ calls[x].op = "each" /\ calls[x].scope = 1 /\ Len(calls[x].items) = 2
        /\ calls[e].op = "exit" /\ calls[e].kind = "each" /\ calls[e].how = "return"
        /\ calls[t].op = "task" /\ calls[t].scope = 1
        /\ calls[s].step.kwargs = BuildKwargs
        /\ calls[t].step.kwargs = BuildKwargs

\* ---------------------------------------------------------------- C30
\* C30: every Process object made by sub_process has the sub-definition and
\* every one made by sequential() or concurrent() the definition of the node
\* it was opened in; and in the enqueued tree every task unit carries the
\* identifier, the module and the class name of the definition of the node
\* that directly holds its Step, the name of the Step's function and the
\* Step's description and kwargs, and nothing else; start and completion
\* units carry no function name, description or kwargs, and a start unit no
\* dependency.
C30_TaskPayload ==
    /\ \A x \in 1..Len(calls) :
          /\ calls[x].op = "sub_process" =>
                nodes[calls[x].builder.process].definition = calls[x].definition
          /\ calls[x].op \in {"sequential", "concurrent"} =>
                nodes[calls[x].builder.process].definition =
                    nodes[calls[x].self.process].definition
    /\ pc = "enqueued" =>
          \A j \in Jobs(queue) :
              IF queue[j].call = "perform_task"
              THEN LET step == NodeAt(process, queue[j].path)
                       node == NodeAt(process, Front(queue[j].path))
                   IN  /\ step.type = "Step"
                       /\ queue[j].identifier = node.identifier
                       /\ queue[j].module_name = node.definition.module
                       /\ queue[j].definition_class = node.definition.qualname
                       /\ queue[j].function_name = step.func
                       /\ queue[j].description = step.description
                       /\ queue[j].kwargs = step.kwargs
                       /\ DOMAIN queue[j].kwargs = DOMAIN step.kwargs
                       /\ DOMAIN queue[j] =
                             {"call", "identifier", "module_name", "definition_class",
                              "function_name", "description", "kwargs", "depends_on", "path"}
              ELSE /\ DOMAIN queue[j] =
                         {"call", "identifier", "module_name", "definition_class",
                          "depends_on", "path"}
                   /\ queue[j].definition_class = NodeAt(process, queue[j].path).definition.qualname
                   /\ queue[j].call = "perform_start" => queue[j].depends_on = DependsOnNone

\* A build of Main registered a task, called sub_process(Sub), which
\* registered another task, and the tree is enqueued: the first task unit
\* names Main and the second Sub, each with the function of its Step.
C30_Witness ==
    /\ pc = "enqueued"
    /\ Len(process.steps) = 2
    /\ \E j, k \in TaskJobs :
          /\ queue[j].path = <<1>> /\ queue[k].path = <<2, 1>>
          /\ queue[j].definition_class = "Main" /\ queue[k].definition_class = "Sub"
          /\ queue[j].function_name # queue[k].function_name
          /\ queue[k].depends_on = DependsOnJob(j)

\* ---------------------------------------------------------------- C31
\* C31: in the queue one enqueue of the tree leaves, every Step of the tree,
\* at any depth, has exactly one task unit, which names the Step's function,
\* and no other unit; every Process node has exactly one completion unit and
\* no task unit; and no unit is for anything that is not a node of the tree.
C31_OneUnitEach ==
    pc = "enqueued" =>
        LET RECURSIVE PathsOf(_, _)
            PathsOf(node, path) ==
                {path} \cup
                (IF IsProcess(node)
                 THEN UNION { PathsOf(node.steps[i], Append(path, i)) :
                                i \in 1..Len(node.steps) }
                 ELSE {})
            paths == PathsOf(process, <<>>)
            units(path, call) ==
                { j \in Jobs(queue) : queue[j].path = path /\ queue[j].call = call }
        IN  /\ \A j \in Jobs(queue) : queue[j].path \in paths
            /\ \A path \in paths :
                  IF IsProcess(NodeAt(process, path))
                  THEN /\ Cardinality(units(path, "perform_complete")) = 1
                       /\ units(path, "perform_task") = {}
                  ELSE /\ Cardinality(units(path, "perform_task")) = 1
                       /\ \A j \in units(path, "perform_task") :
                             queue[j].function_name = NodeAt(process, path).func
                       /\ units(path, "perform_complete") = {}
                       /\ units(path, "perform_start") = {}

\* A root with a Step and a nested node that holds a Step is enqueued: two
\* task units, one for each depth, and two completion units.
C31_Witness ==
    /\ pc = "enqueued"
    /\ Cardinality(TaskJobs) = 2
    /\ Cardinality(CompleteJobs) = 2
    /\ \E j, k \in TaskJobs : Len(queue[j].path) = 2 /\ Len(queue[k].path) = 1

\* ---------------------------------------------------------------- C32
\* C32: in every perform_task call that takes the cancel path, job.cancel()
\* on the call's own job comes first, job.delete_dependents() on it is the
\* next thing the call does, on_cancelled the next after that, and the return
\* of the call follows on_cancelled and is the last; none of the three
\* happens anywhere else in a call, and the path is taken exactly when the
\* body of the try raised CancelProcessError.
C32_CancelOrder ==
    pc = "enqueued" =>
        \A j \in TaskJobs :
            LET n == Len(log[j])
                body == { i \in 1..n :
                            /\ log[j][i].ev \in {"around_task.before", "task_func",
                                                 "around_task.after"}
                            /\ log[j][i].error = CancelProcessError }
            IN  /\ \A i \in Calls(j, "job.cancel") :
                      /\ i + 3 = n
                      /\ log[j][i].job = j
                      /\ log[j][i + 1].ev = "job.delete_dependents"
                      /\ log[j][i + 1].job = j
                      /\ log[j][i + 2].ev = "on_cancelled"
                      /\ log[j][i + 3].ev = "return"
                      /\ i - 1 \in body
                /\ \A i \in Calls(j, "job.delete_dependents") \cup Calls(j, "on_cancelled") :
                      \E c \in Calls(j, "job.cancel") : c < i
                /\ body # {} => Cardinality(Calls(j, "job.cancel")) = 1

\* The first of two Steps of a Sequential root was cancelled by its task
\* function: the call cancelled its job, pruned the second Step's unit and
\* the completion unit, called on_cancelled and returned.
C32_Witness ==
    /\ pc = "enqueued"
    /\ process.type = SequentialProcess
    /\ Len(process.steps) = 2
    /\ LET j == TaskJob(<<1>>) IN
          /\ TaskEnded(j, CancelProcessError)
          /\ Cardinality(Calls(j, "on_cancelled")) = 1
          /\ LastEvent(j).ev = "return"
          /\ status[j] = "canceled"
          /\ status[TaskJob(<<2>>)] = "deleted"
          /\ status[rootJob] = "deleted"

C34_AttachedNone ==
    \A x \in 1..Len(calls) :
        (calls[x].op = "task" /\ calls[x].description = None
            /\ calls[x].func.has_description) =>
            LET c == calls[x] IN
            /\ c.step.description = c.func.description
            /\ c.func.description = None =>
                  /\ c.step.description = None
                  /\ \E i \in 1..Len(nodes[c.self.process].steps) :
                        LET child == nodes[c.self.process].steps[i] IN
                        /\ child.type = "Step"
                        /\ child.func = c.func.name
                        /\ child.description = None

\* A task decorated with a bare @task was registered without a description
\* on the Builder of a block with a description and on the Builder of the
\* definition, which has none: both Steps have no description.
C34_Witness ==
    \E x, y \in 1..Len(calls) :
        /\ calls[x].op = "task" /\ calls[y].op = "task"
        /\ calls[x].func.name = "baz_task" /\ calls[y].func.name = "baz_task"
        /\ calls[x].func.has_description /\ calls[x].func.description = None
        /\ calls[x].description = None /\ calls[y].description = None
        /\ calls[x].self.description = "block"
        /\ calls[y].self.description = None
        /\ calls[x].step.description = None /\ calls[y].step.description = None

\* ---------------------------------------------------------------- C35
\* C35: the completion unit of every Process node of the enqueued tree, a
\* node without children included, depends, directly or through other units,
\* on a start unit; and in every run no on_completed of a node has been
\* called while no start unit has run.
C35_CompletionAfterStart ==
    pc = "enqueued" =>
        \A j \in CompleteJobs :
            /\ \E s \in Ancestors(queue, j) : queue[s].call = "perform_start"
            /\ HasRun(j) => \E s \in StartJobs : HasRun(s)

\* ---------------------------------------------------------------- C36
\* C36: every task unit of the enqueued tree depends, directly or through
\* other units, on a start unit of the tree, and in every run no task
\* function has been called while no on_started of the identifier has
\* returned.
C36_TaskAfterStart ==
    pc = "enqueued" =>
        \A j \in TaskJobs :
            /\ \E s \in Ancestors(queue, j) : queue[s].call = "perform_start"
            /\ HasRun(j) =>
                  \E s \in StartJobs :
                      /\ queue[s].identifier = queue[j].identifier
                      /\ status[s] = "finished"

\* ---------------------------------------------------------------- C37
\* C37: the enqueued tree has one start unit for its root and one for every
\* nested ConcurrentProcess and none for a nested SequentialProcess, so 1 plus
\* the number of nested Concurrent nodes in all; it has one completion unit
\* for every node; so a tree with a nested Sequential node has fewer start
\* units than completion units.
C37_StartCount ==
    pc = "enqueued" =>
        LET RECURSIVE ProcessesOf(_, _)
            ProcessesOf(node, path) ==
                IF IsProcess(node)
                THEN {path} \cup UNION { ProcessesOf(node.steps[i], Append(path, i)) :
                                           i \in 1..Len(node.steps) }
                ELSE {}
            all == ProcessesOf(process, <<>>)
            nested(t) == { path \in all : path # <<>> /\ NodeAt(process, path).type = t }
            starts(path) == { j \in StartJobs : queue[j].path = path }
        IN  /\ Cardinality(starts(<<>>)) = 1
            /\ \A path \in nested(ConcurrentProcess) : Cardinality(starts(path)) = 1
            /\ \A path \in nested(SequentialProcess) : starts(path) = {}
            /\ Cardinality(StartJobs) = 1 + Cardinality(nested(ConcurrentProcess))
            /\ Cardinality(CompleteJobs) = Cardinality(all)
            /\ nested(SequentialProcess) # {} =>
                  Cardinality(StartJobs) < Cardinality(CompleteJobs)

\* A root holds a nested Sequential and a nested Concurrent node: two start
\* units and three completion units.
C37_Witness ==
    /\ pc = "enqueued"
    /\ Len(process.steps) = 2
    /\ process.steps[1].type = SequentialProcess
    /\ process.steps[2].type = ConcurrentProcess
    /\ Cardinality(StartJobs) = 2
    /\ Cardinality(CompleteJobs) = 3
    /\ \A j \in StartJobs : queue[j].path \in {<<>>, <<2>>}

\* ---------------------------------------------------------------- C38
\* C38: when the part of around_task before the yield raises, the task
\* function is not called, and when the part after the yield raises, the task
\* function was called and returned; in both cases the call handles the
\* error as it handles one of the task function: for CancelProcessError it
\* cancels its job, deletes the dependents, calls on_cancelled once and
\* returns, leaving the job cancelled and its dependents deleted; for any
\* other error it calls on_failed once with the error, touches no job and
\* raises the error.
C38_ScopeErrors ==
    pc = "enqueued" =>
        \A j \in TaskJobs :
            \A i \in Calls(j, "around_task.before") \cup Calls(j, "around_task.after") :
                log[j][i].error # None =>
                    LET e == log[j][i].error
                        rest == SubSeq(log[j], i + 1, Len(log[j]))
                        names == [k \in 1..Len(rest) |-> rest[k].ev]
                    IN  /\ log[j][i].ev = "around_task.before" => Calls(j, "task_func") = {}
                        /\ log[j][i].ev = "around_task.after" =>
                              /\ Cardinality(Calls(j, "task_func")) = 1
                              /\ \A t \in Calls(j, "task_func") :
                                    t < i /\ log[j][t].error = None
                        /\ IF e = CancelProcessError
                           THEN /\ names = << "job.cancel", "job.delete_dependents",
                                              "on_cancelled", "return" >>
                                /\ rest[1].job = j /\ rest[2].job = j
                                /\ status[j] = "canceled"
                                /\ \A k \in Dependents(queue, j) : status[k] = "deleted"
                           ELSE /\ names = << "on_failed", "raise" >>
                                /\ rest[1].error = e /\ rest[2].error = e
                                /\ rest[1].step = queue[j].function_name
                                /\ status[j] = "failed"

\* Of the two Steps of a Concurrent root, the around_task of one raised
\* CancelProcessError before the yield, so its task function was not called
\* and the completion unit was deleted; that of the other raised
\* NonRetryableProcessError after its task function had returned.
C38_Witness ==
    /\ pc = "enqueued"
    /\ process.type = ConcurrentProcess
    /\ Len(process.steps) = 2
    /\ LET j == TaskJob(<<1>>)
           k == TaskJob(<<2>>)
       IN  /\ \E i \in Calls(j, "around_task.before") : log[j][i].error = CancelProcessError
           /\ Calls(j, "task_func") = {}
           /\ status[j] = "canceled"
           /\ status[rootJob] = "deleted"
           /\ TaskEnded(k, None)
           /\ \E i \in Calls(k, "around_task.after") :
                 log[k][i].error = NonRetryableProcessError
           /\ Cardinality(Calls(k, "on_failed")) = 1
           /\ status[k] = "failed"

\* ---------------------------------------------------------------- C39
\* C39: from the task call on, the Step of every task call is among the
\* children of the Process object of the Builder it was made on, whatever
\* happens later: when an error has left a transform scope or an each loop,
\* the Steps registered through its Builder are still children of the node
\* it shares with the Builder that made it; and when an error has left a
\* sequential or concurrent block, the Steps registered on the parent before
\* the block are still children of the parent.
C39_NoRollback ==
    /\ \A x \in 1..Len(calls) :
          calls[x].op = "task" =>
              \E i \in 1..Len(nodes[calls[x].self.process].steps) :
                  nodes[calls[x].self.process].steps[i] = calls[x].step
    /\ \A y \in 1..Len(calls) :
          (calls[y].op = "exit" /\ calls[y].how = "raise") =>
              LET n == calls[y].self.process
                  before == { x \in 1..(y - 1) :
                                /\ calls[x].op = "task"
                                /\ \/ calls[y].kind \in {"transform", "each"}
                                         /\ calls[x].scope = calls[y].scope
                                         /\ calls[x].self.process = n
                                   \/ calls[y].kind = "block" /\ calls[x].self = calls[y].self }
                  kept == { i \in 1..Len(nodes[n].steps) : nodes[n].steps[i].type = "Step" }
              IN  /\ calls[y].kind \in {"transform", "each"} => calls[y].builder.process = n
                  /\ \A x \in before : \E i \in kept : nodes[n].steps[i] = calls[x].step
                  /\ Cardinality(before) <= Cardinality(kept)

\* A task was registered through the Builder of a transform scope, an error
\* was raised in the scope and left it, and the Step is a child of the root.
C39_Witness ==
    \E x, y \in 1..Len(calls) :
        /\ x < y
        /\ calls[x].op = "task"
        /\ calls[y].op = "exit" /\ calls[y].how = "raise" /\ calls[y].kind = "transform"
        /\ calls[x].self = calls[y].builder
        /\ calls[x].self.process = 1
        /\ "bar" \in DOMAIN calls[x].step.kwargs
        /\ Len(nodes[1].steps) = 1
        /\ nodes[1].steps[1] = calls[x].step

====
